---- MODULE Spec2Model ----
(***************************************************************************)
(* Model of the expected-points pipeline of fpl-tool:                      *)
(*   fpl/history.py       calculate_expected_points                        *)
(*   fpl/calculations.py  build_difficulty_lookup, compute_horizon_factor, *)
(*                        expected_points_per_90                           *)
(* Tables (pandas DataFrames) are sequences or sets of records.  Numbers   *)
(* that the code holds as float64 are exact rationals extended with the    *)
(* IEEE values NaN, +inf and -inf.                                         *)
(***************************************************************************)
EXTENDS Integers, Sequences, FiniteSets, TLC

\* tie_order is the order in which the build's argsort leaves equal keys
\* (sort_values uses the default kind, quicksort, which is not stable);
\* response is what index returns to the browser
VARIABLES history_df, players_df, fdr_df, pc, query, merged, tie_order, response

\* The loader (helpers/loading.py, fpl/history.py fetch_all_histories,
\* helpers/update_guard.py, app.py load_data):
\*   fixtures        the fixture objects of the fixtures/ endpoint
\*   api             what the element-summary endpoint answers for each player
\*   futures         the state of each submitted fetch_player_history call
\*   finished_order  the players in the order their fetches finished
\*   all_histories   the list fetch_all_histories collects the tables in
\*   fetch           the position of fetch_all_histories and what it returned
\*   stamp           data/last_update.txt
\*   today           the UTC date
\*   files           the four local data files
\*   procs           the load_data calls in progress, one per web request
\*   refreshed       the calls of initialise_data, with the date of each
VARIABLES fixtures, api, futures, finished_order, all_histories, fetch
VARIABLES stamp, today, files, procs, refreshed

pipeline_vars == <<history_df, players_df, fdr_df, pc, query, merged, tie_order, response>>

fetch_vars == <<api, futures, finished_order, all_histories, fetch>>

guard_vars == <<stamp, today, files, procs, refreshed>>

vars == <<pipeline_vars, fixtures, fetch_vars, guard_vars>>

\* the loader at rest: nothing fetched, no request in progress
LoaderIdle ==
    /\ fixtures = <<>>
    /\ api = <<>>
    /\ futures = <<>>
    /\ finished_order = <<>>
    /\ all_histories = <<>>
    /\ fetch = [pc |-> "idle"]
    /\ stamp = [state |-> "absent"]
    /\ today = 1
    /\ files = <<>>
    /\ procs = <<>>
    /\ refreshed = <<>>

(***************************************************************************)
(* float64 values: <<n, d>> is n/d in lowest terms with d > 0;             *)
(* <<0,0>> is NaN, <<1,0>> is +inf, <<-1,0>> is -inf.                      *)
(***************************************************************************)
NaN == <<0, 0>>

PosInf == <<1, 0>>

NegInf == <<-1, 0>>

Abs(n) == IF n < 0 THEN -n ELSE n

Sgn(n) == IF n < 0 THEN -1 ELSE IF n > 0 THEN 1 ELSE 0

RECURSIVE GCD(_, _)
GCD(a, b) == IF b = 0 THEN a ELSE GCD(b, a % b)

Norm(n, d) ==
    IF d = 0 THEN <<Sgn(n), 0>>
    ELSE LET g == GCD(Abs(n), Abs(d))
             s == IF d < 0 THEN -1 ELSE 1
         IN  <<(s * n) \div g, (s * d) \div g>>

R(n) == <<n, 1>>

Q(n, d) == Norm(n, d)

IsNaN(a) == a = NaN

IsInf(a) == a[2] = 0 /\ a[1] # 0

IsFinite(a) == a[2] > 0

Neg(a) == <<-a[1], a[2]>>

\* IEEE addition: inf + (-inf) is NaN, NaN is absorbing.
Add(a, b) ==
    IF IsNaN(a) \/ IsNaN(b) THEN NaN
    ELSE IF IsInf(a) /\ IsInf(b) THEN (IF a = b THEN a ELSE NaN)
    ELSE IF IsInf(a) THEN a
    ELSE IF IsInf(b) THEN b
    ELSE Norm(a[1] * b[2] + b[1] * a[2], a[2] * b[2])

Sub(a, b) == Add(a, Neg(b))

\* IEEE multiplication: 0 * inf is NaN.
Mul(a, b) == Norm(a[1] * b[1], a[2] * b[2])

\* 1/b: 1/0 is +inf (the zeros the pipeline produces are +0.0), 1/inf is 0.
Inv(b) ==
    IF IsNaN(b) THEN NaN
    ELSE IF IsInf(b) THEN R(0)
    ELSE IF b[1] = 0 THEN PosInf
    ELSE Norm(b[2], b[1])

\* IEEE division without an exception: x/0 is +-inf, 0/0 is NaN.
Div(a, b) == Mul(a, Inv(b))

\* floor(a / k) for a finite a and an integer k > 0 (the // operator).
FloorDiv(a, k) == IF IsFinite(a) THEN R(a[1] \div (a[2] * k)) ELSE a

\* a < b, a <= b, a >= b on float64; every comparison with NaN is false.
Lt(a, b) ==
    IF IsNaN(a) \/ IsNaN(b) THEN FALSE
    ELSE IF IsInf(a) \/ IsInf(b)
         THEN (a = NegInf /\ b # NegInf) \/ (b = PosInf /\ a # PosInf)
    ELSE a[1] * b[2] < b[1] * a[2]

Le(a, b) == ~IsNaN(a) /\ ~IsNaN(b) /\ (a = b \/ Lt(a, b))

Ge(a, b) == Le(b, a)

\* Series.fillna(v)
FillNa(a, v) == IF IsNaN(a) THEN v ELSE a

\* sum and mean of a sequence of float64 with NaN skipped (pandas skipna=True);
\* the sum of nothing is 0 and the mean of nothing is NaN.
RECURSIVE SumSeq(_)
SumSeq(s) ==
    IF s = <<>> THEN R(0)
    ELSE IF IsNaN(Head(s)) THEN SumSeq(Tail(s))
    ELSE Add(Head(s), SumSeq(Tail(s)))

RECURSIVE CountValid(_)
CountValid(s) ==
    IF s = <<>> THEN 0
    ELSE (IF IsNaN(Head(s)) THEN 0 ELSE 1) + CountValid(Tail(s))

MeanSeq(s) ==
    IF CountValid(s) = 0 THEN NaN ELSE Div(SumSeq(s), R(CountValid(s)))

\* a + b + ... left to right, NaN propagating (the + of whole columns)
RECURSIVE SumAll(_)
SumAll(s) == IF s = <<>> THEN R(0) ELSE Add(Head(s), SumAll(Tail(s)))

\* the elements of a finite set of integers in ascending order
RECURSIVE SortedInts(_)
SortedInts(S) ==
    IF S = {} THEN <<>>
    ELSE LET m == CHOOSE x \in S : \A y \in S : x <= y
         IN  <<m>> \o SortedInts(S \ {m})

(***************************************************************************)
(* Inputs.  None stands for an omitted optional argument, NoStr for a      *)
(* missing string (NaN in an object column).                               *)
(***************************************************************************)
None == 0 - 1

\* an omitted table argument; a table t that is passed is <<t>>
NoTable == <<>>

NoStr == "nan"

\* mins_threshold=None: an omitted float argument (a float is a pair)
NoThreshold == <<>>

\* a cell of a numeric column that holds text (an object column after a CSV
\* round trip); it is no float64 value
NonNumeric == <<1, 0 - 1>>

\* pd.to_numeric(column, errors="coerce"): text becomes NaN
to_numeric(v) == IF v = NonNumeric THEN NaN ELSE v

\* the table with the columns cols passed through to_numeric
coerce(rows, cols) ==
    [i \in 1..Len(rows) |->
        [c \in DOMAIN rows[i] |->
            IF c \in cols THEN to_numeric(rows[i][c]) ELSE rows[i][c]]]

NumPlayers == 2

MaxRound == 2

MaxRows == 2

Elements == 1..NumPlayers

Rounds == 1..MaxRound

Teams == {1, 2}

POS_MAP ==
    [Goalkeeper |-> "GKP", Defender |-> "DEF", Midfielder |-> "MID", Forward |-> "FWD"]

\* the scoring rules of the game (game_config.scoring of the bootstrap data)
scoring ==
    [long_play |-> 2, short_play |-> 1, assists |-> 3,
     goals_scored |-> ("GKP" :> 10 @@ "DEF" :> 6 @@ "MID" :> 5 @@ "FWD" :> 4),
     clean_sheets |-> ("GKP" :> 4 @@ "DEF" :> 4 @@ "MID" :> 1 @@ "FWD" :> 0),
     goals_conceded |-> ("GKP" :> -1 @@ "DEF" :> -1 @@ "MID" :> 0 @@ "FWD" :> 0),
     own_goals |-> -2, penalties_saved |-> 5, penalties_missed |-> -2,
     yellow_cards |-> -1, red_cards |-> -3, saves |-> 1, bonus |-> 1]

\* data/parameters.json as load_parameters returns it
params ==
    [long_play_threshold |-> 60, defcon_threshold |-> [def |-> 10, non_def |-> 12]]

\* The match statistics of one history row: a player booked on the bench, a
\* full match (the scenario of the specification: 90 minutes, xG 0.3, xGC 1.2)
\* and a sending-off before the hour.
StatLines ==
    { [minutes |-> R(0), total_points |-> R(-1), expected_goals |-> R(0),
       expected_assists |-> R(0), expected_goals_conceded |-> R(0),
       own_goals |-> R(0), penalties_saved |-> R(0), penalties_missed |-> R(0),
       yellow_cards |-> R(1), red_cards |-> R(0), saves |-> R(0), bonus |-> R(0),
       defensive_contribution |-> R(0)],
      [minutes |-> R(90), total_points |-> R(7), expected_goals |-> Q(3, 10),
       expected_assists |-> R(0), expected_goals_conceded |-> Q(6, 5),
       own_goals |-> R(0), penalties_saved |-> R(0), penalties_missed |-> R(0),
       yellow_cards |-> R(0), red_cards |-> R(0), saves |-> R(0), bonus |-> R(0),
       defensive_contribution |-> R(0)],
      [minutes |-> R(45), total_points |-> R(-2), expected_goals |-> R(0),
       expected_assists |-> R(0), expected_goals_conceded |-> Q(12, 5),
       own_goals |-> R(0), penalties_saved |-> R(0), penalties_missed |-> R(0),
       yellow_cards |-> R(0), red_cards |-> R(1), saves |-> R(0), bonus |-> R(0),
       defensive_contribution |-> R(12)] }

\* fixture_difficulty values of history rows
Difficulties == {1, 3, 4}

Opponents == {"A"}

\* the columns calculate_expected_points adds, before it has run
Unscored ==
    [position |-> NoStr, pos_abbr |-> NoStr, expected_points |-> NaN,
     expected_points_per_90 |-> NaN, actual_points_per_90 |-> NaN,
     percentage_of_mins_played |-> NaN]

\* one row of history_df (SUPPORTED_HISTORY_METRICS that the pipeline reads)
RawRows ==
    { [element |-> e, round |-> r, opponent_team_name |-> o,
       fixture_difficulty |-> R(d)] @@ st @@ Unscored :
        e \in Elements, r \in Rounds, o \in Opponents, d \in Difficulties,
        st \in StatLines }

\* fetch_all_histories sorts by element and round, and _merge_fixture_difficulty
\* keeps one row per (element, round, opponent_team_name)
KeyLt(a, b) ==
    \/ a.element < b.element
    \/ a.element = b.element /\ a.round < b.round
    \/ a.element = b.element /\ a.round = b.round
        /\ a.opponent_team_name # b.opponent_team_name

RECURSIVE HistoriesOfLen(_)
HistoriesOfLen(n) ==
    IF n = 0 THEN {<<>>}
    ELSE { Append(h, row) : h \in HistoriesOfLen(n - 1), row \in RawRows }

Histories ==
    { h \in UNION { HistoriesOfLen(n) : n \in 1..MaxRows } :
        \A i \in 1..(Len(h) - 1) : KeyLt(h[i], h[i + 1]) }

PositionNames == <<"Midfielder", "Defender", "Forward", "Goalkeeper">>

\* now_cost of the bootstrap-static element: the price in tenths of a million
raw_now_cost(e) == 44 + 10 * e

\* preprocess_players_df: the cost converted into millions
preprocess_now_cost(cost) == Q(cost, 10)

\* players_df: index element id, columns team, position and now_cost (the
\* price in millions: preprocess_players_df has divided the API's tenths by 10)
PlayersTables ==
    { [e \in Elements |->
         [team |-> t[e], position |-> PositionNames[((e - 1) % 4) + 1],
          now_cost |-> preprocess_now_cost(raw_now_cost(e))]] :
        t \in { f \in [Elements -> Teams] : f[1] = 1 } }

\* fdr_df rows: one per team and fixture; the fixtures known are those of the
\* first team, an easy one in round MaxRound and a hard one in the round after
FixtureTeams == {1}

FdrRows ==
    { [round |-> r, team_id |-> t,
       fixture_difficulty |-> IF r = MaxRound THEN R(1) ELSE R(5)] :
        r \in {MaxRound, MaxRound + 1}, t \in FixtureTeams }

FdrTables == SUBSET FdrRows

(***************************************************************************)
(* fpl/history.py calculate_expected_points                                *)
(***************************************************************************)
\* Series.map(dict): NaN for a key the dict lacks
MapPos(table, pos) == IF pos \in DOMAIN table THEN R(table[pos]) ELSE NaN

\* np.exp(-x) on the xGC values of StatLines, rounded to two decimals
ExpNeg(x) ==
    CASE x = R(0) -> R(1)
      [] x = Q(6, 5) -> Q(3, 10)
      [] x = Q(12, 5) -> Q(9, 100)
      [] OTHER -> NaN

Bool(b) == IF b THEN R(1) ELSE R(0)

long_short_points(row) ==
    Add(Mul(Bool(Ge(row.minutes, R(params.long_play_threshold))), R(scoring.long_play)),
        Mul(Bool(Lt(R(0), row.minutes)
                 /\ Lt(row.minutes, R(params.long_play_threshold))),
            R(scoring.short_play)))

defensive_contribution_points(row, pos_abbr) ==
    IF pos_abbr = "DEF"
          /\ Ge(row.defensive_contribution, R(params.defcon_threshold.def))
    THEN R(2)
    ELSE IF pos_abbr # "DEF"
          /\ Ge(row.defensive_contribution, R(params.defcon_threshold.non_def))
    THEN R(2)
    ELSE R(0)

probability_clean_sheet(row) ==
    IF Ge(row.minutes, R(params.long_play_threshold))
    THEN ExpNeg(row.expected_goals_conceded)
    ELSE R(0)

expected_clean_sheet_points(row, pos_abbr) ==
    Mul(MapPos(scoring.clean_sheets, pos_abbr), probability_clean_sheet(row))

\* the goals term of the sum (history.py lines 167-168)
goal_points(row, pos_abbr) ==
    Mul(row.expected_goals, MapPos(scoring.goals_scored, pos_abbr))

\* the goals-conceded term of the sum (history.py lines 171-172)
conceded_points(row, pos_abbr) ==
    Mul(FloorDiv(row.expected_goals_conceded, 2),
        MapPos(scoring.goals_conceded, pos_abbr))

RowExpectedPoints(row, pos_abbr) ==
    SumAll(<<goal_points(row, pos_abbr),
             Mul(row.expected_assists, R(scoring.assists)),
             expected_clean_sheet_points(row, pos_abbr),
             conceded_points(row, pos_abbr),
             Mul(row.own_goals, R(scoring.own_goals)),
             Mul(row.penalties_saved, R(scoring.penalties_saved)),
             Mul(row.penalties_missed, R(scoring.penalties_missed)),
             Mul(row.yellow_cards, R(scoring.yellow_cards)),
             Mul(row.red_cards, R(scoring.red_cards)),
             Mul(FloorDiv(row.saves, 3), R(scoring.saves)),
             Mul(row.bonus, R(scoring.bonus)),
             defensive_contribution_points(row, pos_abbr),
             long_short_points(row)>>)

\* variant without the minutes guard: the plain division total / minutes * 90
Per90_Unguarded(total, row) ==
    IF row.red_cards = R(0)
    THEN Mul(Div(total, row.minutes), R(90))
    ELSE total

\* variant without the red-card branch: every played match is extrapolated
Per90_Extrapolated(total, row) ==
    IF row.minutes # R(0)
    THEN Mul(Div(total, row.minutes), R(90))
    ELSE R(0)

\* np.where(minutes != 0, np.where(red_cards == 0, total / minutes * 90, total), 0)
Per90(total, row) ==
    IF row.minutes # R(0)
    THEN IF row.red_cards = R(0)
         THEN Mul(Div(total, row.minutes), R(90))
         ELSE total
    ELSE R(0)

\* variant that leaves percentage_of_mins_played unassigned
ScoreRow_NoShare(row, players) ==
    LET position == IF row.element \in DOMAIN players
                    THEN players[row.element].position ELSE NoStr
        pos_abbr == IF position \in DOMAIN POS_MAP THEN POS_MAP[position] ELSE NoStr
        xp_row   == RowExpectedPoints(row, pos_abbr)
    IN  [row EXCEPT !.position = position,
                    !.pos_abbr = pos_abbr,
                    !.expected_points = xp_row,
                    !.expected_points_per_90 = Per90(xp_row, row),
                    !.actual_points_per_90 = Per90(row.total_points, row)]

ScoreRow(row, players) ==
    LET position == IF row.element \in DOMAIN players
                    THEN players[row.element].position ELSE NoStr
        pos_abbr == IF position \in DOMAIN POS_MAP THEN POS_MAP[position] ELSE NoStr
        xp_row   == RowExpectedPoints(row, pos_abbr)
    IN  [row EXCEPT !.position = position,
                    !.pos_abbr = pos_abbr,
                    !.expected_points = xp_row,
                    !.expected_points_per_90 = Per90(xp_row, row),
                    !.actual_points_per_90 = Per90(row.total_points, row),
                    !.percentage_of_mins_played = Div(row.minutes, R(90))]

calculate_expected_points(history, players) ==
    [i \in 1..Len(history) |-> ScoreRow(history[i], players)]

\* the exception calculate_expected_points raises on a column that holds text,
\* "" for none: the comparisons of minutes and defensive_contribution with a
\* threshold (lines 133, 142) raise TypeError, astype(float) of the expected_*
\* columns (lines 158, 167, 169) raises ValueError
scoring_error(history) ==
    IF \E i \in 1..Len(history) :
          \/ history[i].minutes = NonNumeric
          \/ history[i].defensive_contribution = NonNumeric
    THEN "TypeError"
    ELSE IF \E i \in 1..Len(history) :
               \/ history[i].expected_goals_conceded = NonNumeric
               \/ history[i].expected_goals = NonNumeric
               \/ history[i].expected_assists = NonNumeric
    THEN "ValueError"
    ELSE ""

\* the caller's table when the exception leaves the function: lines 128-129
\* have assigned position and pos_abbr, nothing else
with_positions(history, players) ==
    [i \in 1..Len(history) |->
        LET position == IF history[i].element \in DOMAIN players
                        THEN players[history[i].element].position ELSE NoStr
        IN  [history[i] EXCEPT
               !.position = position,
               !.pos_abbr = IF position \in DOMAIN POS_MAP
                            THEN POS_MAP[position] ELSE NoStr]]

(***************************************************************************)
(* fpl/calculations.py build_difficulty_lookup                             *)
(***************************************************************************)
\* the elements of a finite set, as a sequence in some fixed order
RECURSIVE SetToSeq(_)
SetToSeq(S) ==
    IF S = {} THEN <<>>
    ELSE LET x == CHOOSE y \in S : TRUE IN <<x>> \o SetToSeq(S \ {x})

\* a finite set of finite float64 values in ascending order (groupby sorts keys)
RECURSIVE SortedVals(_)
SortedVals(S) ==
    IF S = {} THEN <<>>
    ELSE LET m == CHOOSE x \in S : \A y \in S : Le(x, y)
         IN  <<m>> \o SortedVals(S \ {m})

Column(rows, col) == [i \in 1..Len(rows) |-> rows[i][col]]

\* groupby("fixture_difficulty")["expected_points"].mean(): the levels present
\* (NaN keys dropped) in ascending order and the mean of each
LevelsOf(history) ==
    SortedVals({ history[i].fixture_difficulty : i \in 1..Len(history) } \ {NaN})

LevelMean(history, level) ==
    MeanSeq(Column(SelectSeq(history, LAMBDA r : r.fixture_difficulty = level),
                   "expected_points"))

\* rdf.loc[rdf["fixture_difficulty"] == 3, "expected_points"].values[0]
Level3Mean(history) == LevelMean(history, R(3))

\* variant normalising by the lowest level present instead of level 3
build_difficulty_lookup_Lowest(history) ==
    LET xp == LevelsOf(history)
    IN  IF \A i \in 1..Len(xp) : xp[i] # R(3)
        THEN [error |-> "IndexError", xp |-> <<>>, yp |-> <<>>]
        ELSE [error |-> "",
              xp |-> xp,
              yp |-> [i \in 1..Len(xp) |->
                        Div(LevelMean(history, xp[i]), LevelMean(history, xp[1]))]]

\* error "IndexError" when no row has difficulty 3 (.values[0] of nothing);
\* otherwise xp are the levels and yp their means over the level-3 mean
build_difficulty_lookup(history) ==
    LET rdf == coerce(history, {"expected_points", "fixture_difficulty"})
        xp  == LevelsOf(rdf)
    IN  IF \A i \in 1..Len(xp) : xp[i] # R(3)
        THEN [error |-> "IndexError", xp |-> <<>>, yp |-> <<>>]
        ELSE [error |-> "",
              xp |-> xp,
              yp |-> [i \in 1..Len(xp) |->
                        Div(LevelMean(rdf, xp[i]), Level3Mean(rdf))]]

(***************************************************************************)
(* np.interp(x, xp, yp) for ascending xp                                   *)
(***************************************************************************)
\* the largest j with xp[j] <= x, for xp[1] <= x
Bracket(x, xp) == CHOOSE j \in 1..Len(xp) :
    /\ Le(xp[j], x)
    /\ \A k \in 1..Len(xp) : Le(xp[k], x) => k <= j

\* float equality (NaN equals nothing)
FEq(a, b) == ~IsNaN(a) /\ a = b

\* variant taking the two bracketing levels to be one apart
InterpInner_UnitStep(x, xp, yp, j) ==
    LET slope == Sub(yp[j + 1], yp[j])
        fwd   == Add(Mul(slope, Sub(x, xp[j])), yp[j])
        bwd   == Add(Mul(slope, Sub(x, Add(xp[j], R(1)))), yp[j + 1])
    IN  IF ~IsNaN(fwd) THEN fwd
        ELSE IF ~IsNaN(bwd) THEN bwd
        ELSE IF FEq(yp[j], yp[j + 1]) THEN yp[j]
        ELSE NaN

InterpInner(x, xp, yp, j) ==
    LET slope == Div(Sub(yp[j + 1], yp[j]), Sub(xp[j + 1], xp[j]))
        fwd   == Add(Mul(slope, Sub(x, xp[j])), yp[j])
        bwd   == Add(Mul(slope, Sub(x, xp[j + 1])), yp[j + 1])
    IN  IF ~IsNaN(fwd) THEN fwd
        ELSE IF ~IsNaN(bwd) THEN bwd
        ELSE IF FEq(yp[j], yp[j + 1]) THEN yp[j]
        ELSE NaN

Interp(x, xp, yp) ==
    LET n == Len(xp)
    IN  IF n = 1 THEN yp[1]
        ELSE IF IsNaN(x) THEN NaN
        ELSE IF Lt(x, xp[1]) THEN yp[1]
        ELSE IF Lt(xp[n], x) THEN yp[n]
        ELSE LET j == Bracket(x, xp)
             IN  IF j = n \/ xp[j] = x THEN yp[j]
                 ELSE InterpInner(x, xp, yp, j)

(***************************************************************************)
(* fpl/calculations.py compute_horizon_factor                              *)
(***************************************************************************)
upcoming_rounds(current_round, horizon) ==
    (current_round + 1)..(current_round + horizon)

\* upcoming.groupby("team_id")["fixture_difficulty"].mean(); NaN for a team
\* with no upcoming row (Series.map of a missing key)
team_avg(fdr, current_round, horizon, team) ==
    MeanSeq(Column(SetToSeq({ f \in fdr :
                                /\ f.round \in upcoming_rounds(current_round, horizon)
                                /\ f.team_id = team }),
                   "fixture_difficulty"))

compute_horizon_factor(players, fdr, current_round, horizon, xp, yp) ==
    [e \in DOMAIN players |->
        Interp(team_avg(fdr, current_round, horizon, players[e].team), xp, yp)]

(***************************************************************************)
(* fpl/calculations.py expected_points_per_90                              *)
(***************************************************************************)
\* int(history_df["round"].max())
latest_round(history) ==
    CHOOSE m \in { history[i].round : i \in 1..Len(history) } :
        \A i \in 1..Len(history) : history[i].round <= m

\* variant whose window reaches one round further back
filter_rows_OneMore(history, position, time_period) ==
    LET latest == latest_round(history)
        recent == IF time_period = None THEN history
                  ELSE SelectSeq(history, LAMBDA r :
                         r.round \in (latest - time_period)..latest)
    IN  IF position = NoStr THEN recent
        ELSE SelectSeq(recent, LAMBDA r : r.pos_abbr = position)

\* the rows left by the window filter and the position filter
filter_rows(history, position, time_period) ==
    LET latest == latest_round(history)
        recent == IF time_period = None THEN history
                  ELSE SelectSeq(history, LAMBDA r :
                         r.round \in (latest - time_period + 1)..latest)
    IN  IF position = NoStr THEN recent
        ELSE SelectSeq(recent, LAMBDA r : r.pos_abbr = position)

\* the group keys of df.groupby(["element", "round", "opponent_team_name"]);
\* groupby drops the rows with a missing key
FixtureKeys(df) ==
    { <<df[i].element, df[i].round, df[i].opponent_team_name>> :
        i \in { k \in 1..Len(df) : df[k].opponent_team_name # NoStr } }

RowsOfKey(df, key) ==
    SelectSeq(df, LAMBDA r : <<r.element, r.round, r.opponent_team_name>> = key)

\* variant counting a missing difficulty as 3 in the fixture's mean
per_fixture_UnknownAs3(df, key) ==
    [element |-> key[1],
     total_minutes |-> SumSeq(Column(RowsOfKey(df, key), "minutes")),
     total_expected_points |-> SumSeq(Column(RowsOfKey(df, key), "expected_points")),
     total_actual_points |-> SumSeq(Column(RowsOfKey(df, key), "total_points")),
     avg_fixture_difficulty |->
         MeanSeq([i \in 1..Len(RowsOfKey(df, key)) |->
                    FillNa(RowsOfKey(df, key)[i].fixture_difficulty, R(3))])]

\* first groupby: one record per fixture
per_fixture(df, key) ==
    [element |-> key[1],
     total_minutes |-> SumSeq(Column(RowsOfKey(df, key), "minutes")),
     total_expected_points |-> SumSeq(Column(RowsOfKey(df, key), "expected_points")),
     total_actual_points |-> SumSeq(Column(RowsOfKey(df, key), "total_points")),
     avg_fixture_difficulty |->
         MeanSeq(Column(RowsOfKey(df, key), "fixture_difficulty"))]

\* second groupby: the fixtures of one element collapsed
per_element(df, e) ==
    LET fx == [i \in 1..Cardinality({ k \in FixtureKeys(df) : k[1] = e }) |->
                 per_fixture(df, SetToSeq({ k \in FixtureKeys(df) : k[1] = e })[i])]
    IN  [element |-> e,
         total_minutes |-> SumSeq(Column(fx, "total_minutes")),
         total_expected_points |-> SumSeq(Column(fx, "total_expected_points")),
         total_actual_points |-> SumSeq(Column(fx, "total_actual_points")),
         avg_fixture_difficulty |->
             FillNa(MeanSeq(Column(fx, "avg_fixture_difficulty")), R(3))]

\* df.groupby("element").size(): rows, not fixtures
fixture_count(df, e) == Len(SelectSeq(df, LAMBDA r : r.element = e))

\* variant computing the factor whenever a fixture table is passed
horizon_factor_of_FdrOnly(e, players, fdr, horizon, latest, xp, yp) ==
    IF fdr # NoTable
    THEN LET hf == compute_horizon_factor(players, fdr[1], latest, horizon, xp, yp)
         IN  FillNa(IF e \in DOMAIN hf THEN hf[e] ELSE NaN, R(1))
    ELSE NaN

\* grouped["horizon_factor"]: the factor reindexed to the grouped players and
\* filled with 1.0, or NaN when the adjustment is off
horizon_factor_of(e, players, fdr, horizon, latest, xp, yp) ==
    IF fdr # NoTable /\ horizon # None
    THEN LET hf == compute_horizon_factor(players, fdr[1], latest, horizon, xp, yp)
         IN  FillNa(IF e \in DOMAIN hf THEN hf[e] ELSE NaN, R(1))
    ELSE NaN

\* variant without the replacement of infinite quotients
scale_of_KeepInf(horizon_factor, recency_factor, fdr, horizon) ==
    IF fdr # NoTable /\ horizon # None
    THEN FillNa(Div(horizon_factor, recency_factor), R(1))
    ELSE R(1)

\* (horizon_factor / recency_factor).fillna(1.0).replace([inf, -inf], 1.0),
\* or the constant 1.0 when the adjustment is off
scale_of(horizon_factor, recency_factor, fdr, horizon) ==
    IF fdr # NoTable /\ horizon # None
    THEN LET q == FillNa(Div(horizon_factor, recency_factor), R(1))
         IN  IF IsInf(q) THEN R(1) ELSE q
    ELSE R(1)

\* Series.replace(0, np.nan)
safe_minutes(total_minutes) == IF total_minutes = R(0) THEN NaN ELSE total_minutes

\* variant leaving out the factor of 90
rate_per_90_PerMinute(total, total_minutes, scale) ==
    FillNa(Mul(Div(total, safe_minutes(total_minutes)), scale), R(0))

\* total / safe_minutes * 90 * scale, NaN filled with 0
rate_per_90(total, total_minutes, scale) ==
    FillNa(Mul(Mul(Div(total, safe_minutes(total_minutes)), R(90)), scale), R(0))

\* variant applying the scale to the actual rate as well
ranked_row_ScaledActual(df, e, players, fdr, horizon, latest, xp, yp) ==
    LET g   == per_element(df, e)
        rf  == Interp(g.avg_fixture_difficulty, xp, yp)
        hf  == horizon_factor_of(e, players, fdr, horizon, latest, xp, yp)
        sc  == scale_of(hf, rf, fdr, horizon)
        fc  == R(fixture_count(df, e))
        x90 == rate_per_90(g.total_expected_points, g.total_minutes, sc)
        pct == FillNa(Div(g.total_minutes, Mul(fc, R(90))), R(0))
    IN  [element |-> e,
         avg_fixture_difficulty |-> g.avg_fixture_difficulty,
         recency_factor |-> rf,
         horizon_factor |-> hf,
         scale |-> sc,
         expected_points_per_90 |-> x90,
         actual_points_per_90 |-> rate_per_90(g.total_actual_points, g.total_minutes, sc),
         fixture_count |-> fc,
         percentage_of_mins_played |-> pct,
         actual_points |-> FillNa(Div(g.total_actual_points, fc), R(0)),
         expected_points |-> FillNa(Mul(x90, pct), R(0))]

\* one row of grouped; scale is the local of lines 189-196, kept beside the
\* columns
ranked_row(df, e, players, fdr, horizon, latest, xp, yp) ==
    LET g   == per_element(df, e)
        rf  == Interp(g.avg_fixture_difficulty, xp, yp)
        hf  == horizon_factor_of(e, players, fdr, horizon, latest, xp, yp)
        sc  == scale_of(hf, rf, fdr, horizon)
        fc  == R(fixture_count(df, e))
        x90 == rate_per_90(g.total_expected_points, g.total_minutes, sc)
        pct == FillNa(Div(g.total_minutes, Mul(fc, R(90))), R(0))
    IN  [element |-> e,
         avg_fixture_difficulty |-> g.avg_fixture_difficulty,
         recency_factor |-> rf,
         horizon_factor |-> hf,
         scale |-> sc,
         expected_points_per_90 |-> x90,
         actual_points_per_90 |-> rate_per_90(g.total_actual_points, g.total_minutes, R(1)),
         fixture_count |-> fc,
         percentage_of_mins_played |-> pct,
         actual_points |-> FillNa(Div(g.total_actual_points, fc), R(0)),
         expected_points |-> FillNa(Mul(x90, pct), R(0))]

\* the columns of players_df for element e, missing for an id it lacks
metadata_of(e, players) ==
    [team |-> IF e \in DOMAIN players THEN players[e].team ELSE None,
     position |-> IF e \in DOMAIN players THEN players[e].position ELSE NoStr,
     now_cost |-> IF e \in DOMAIN players THEN players[e].now_cost ELSE NaN]

\* variant joining only the ids players_df holds
merge_Inner(grouped, players) ==
    LET held == SelectSeq(grouped, LAMBDA g : g.element \in DOMAIN players)
    IN  [i \in 1..Len(held) |-> held[i] @@ metadata_of(held[i].element, players)]

\* grouped.merge(players_df, left_index=True, right_index=True, how="left"):
\* every row of grouped is kept and gains the columns of players_df
merge(grouped, players) ==
    [i \in 1..Len(grouped) |-> grouped[i] @@ metadata_of(grouped[i].element, players)]

\* the place of element e in tie_order
TieRank(e) == CHOOSE i \in 1..Len(tie_order) : tie_order[i] = e

\* sort_values("expected_points", ascending=False): rows in descending order;
\* kind is left at its default, so rows with equal values come out in the
\* order the build's argsort gives them, tie_order
RECURSIVE InsertDesc(_, _)
InsertDesc(sorted, row) ==
    IF sorted = <<>> THEN <<row>>
    ELSE IF \/ Lt(Head(sorted).expected_points, row.expected_points)
            \/ /\ Head(sorted).expected_points = row.expected_points
               /\ TieRank(row.element) < TieRank(Head(sorted).element)
         THEN <<row>> \o sorted
         ELSE <<Head(sorted)>> \o InsertDesc(Tail(sorted), row)

RECURSIVE sort_values(_)
sort_values(rows) ==
    IF rows = <<>> THEN <<>>
    ELSE InsertDesc(sort_values(SubSeq(rows, 1, Len(rows) - 1)), rows[Len(rows)])

\* merged.reset_index(drop=False); merged.index = merged.index + 1: the index
\* (kept as a column) counts the rows from 0 and is then raised by one
reset_index(rows) == [i \in 1..Len(rows) |-> rows[i] @@ [index |-> (i - 1) + 1]]

\* variant keeping only the players above the threshold
threshold_filter_Strict(grouped, mins_threshold) ==
    IF mins_threshold = NoThreshold THEN grouped
    ELSE SelectSeq(grouped, LAMBDA g :
           Lt(mins_threshold, g.percentage_of_mins_played))

\* if mins_threshold is not None:
\*     grouped = grouped[grouped["percentage_of_mins_played"] >= mins_threshold]
threshold_filter(grouped, mins_threshold) ==
    IF mins_threshold = NoThreshold THEN grouped
    ELSE SelectSeq(grouped, LAMBDA g :
           Ge(g.percentage_of_mins_played, mins_threshold))

\* variant building the lookup from the windowed rows
lookup_of_Windowed(history, time_period) ==
    build_difficulty_lookup(filter_rows(history, NoStr, time_period))

\* line 142: the lookup is built from history_df before the window filter
lookup_of(history, time_period) == build_difficulty_lookup(history)

\* variant without the copy: with no filter to take a new table, the
\* to_numeric assignments of lines 159-160 land in the caller's table
caller_history_Shared(history, position, time_period) ==
    IF position = NoStr /\ time_period = None
    THEN coerce(history, {"minutes", "expected_points", "total_points",
                          "fixture_difficulty"})
    ELSE history

\* the caller's history_df after the call: df = deepcopy(history_df) (line 144)
\* and DataFrame.assign (line 36) work on copies, so it is as it was
caller_history(history, position, time_period) == history

\* the call: error is the exception raised ("" for none), xp and yp the curve,
\* rows the returned table (its index is the position in the sequence, from 1)
expected_points_per_90(history, players, position, mins_threshold, time_period, fdr, horizon) ==
    LET lookup == lookup_of(history, time_period)
        df     == coerce(filter_rows(history, position, time_period),
                         {"minutes", "expected_points", "total_points",
                          "fixture_difficulty"})
        latest == latest_round(history)
        ids    == SortedInts({ k[1] : k \in FixtureKeys(df) })
        grouped == [i \in 1..Len(ids) |->
                      ranked_row(df, ids[i], players, fdr, horizon, latest,
                                 lookup.xp, lookup.yp)]
        kept   == threshold_filter(grouped, mins_threshold)
    IN  IF lookup.error # "" THEN lookup @@ [rows |-> <<>>]
        ELSE lookup @@ [rows |-> reset_index(sort_values(merge(kept, players)))]

(***************************************************************************)
(* The program: app.py load_data and index                                 *)
(***************************************************************************)
NoQuery ==
    [position |-> NoStr, mins_threshold |-> NoThreshold, time_period |-> None,
     fdr |-> FALSE, horizon |-> None]

NoResult == [error |-> "", xp |-> <<>>, yp |-> <<>>, rows |-> <<>>]

\* no response sent yet
NoResponse == [status |-> 0]

\* the orders an argsort can leave equal keys in: every order of the elements
TieOrders ==
    { t \in [1..NumPlayers -> Elements] : \A e \in Elements : \E i \in 1..NumPlayers : t[i] = e }

Init ==
    /\ history_df \in Histories
    /\ players_df \in PlayersTables
    /\ fdr_df \in FdrTables
    /\ pc = "loaded"
    /\ query = NoQuery
    /\ merged = NoResult
    /\ tie_order \in TieOrders
    /\ response = NoResponse
    /\ LoaderIdle

\* load_data: history.calculate_expected_points(history_df, players_df, scoring)
\* the columns are assigned on the table passed in, which is also returned;
\* an exception leaves load_data and index answers 500 (app.py lines 202-204)
CalculateExpectedPoints ==
    /\ pc = "loaded"
    /\ IF scoring_error(history_df) = ""
       THEN /\ history_df' = calculate_expected_points(history_df, players_df)
            /\ pc' = "scored"
            /\ response' = response
       ELSE /\ history_df' = with_positions(history_df, players_df)
            /\ pc' = "failed"
            /\ response' = [status |-> 500, error |-> scoring_error(history_df)]
    /\ UNCHANGED <<players_df, fdr_df, query, merged, tie_order>>
    /\ UNCHANGED <<fixtures, fetch_vars, guard_vars>>

Positions == {NoStr, "MID"}

Thresholds == {NoThreshold}

Windows == {None, 1}

Horizons == {None, 1, 2}

\* a call of calculations.expected_points_per_90 on the scored tables, its
\* arguments drawn from the sets given
RankCall(Pos, Thr, Win, Fdr, Hor) ==
    /\ pc = "scored"
    /\ \E position \in Pos, mins_threshold \in Thr,
          time_period \in Win, with_fdr \in Fdr, horizon \in Hor :
          /\ query' = [position |-> position, mins_threshold |-> mins_threshold,
                       time_period |-> time_period, fdr |-> with_fdr,
                       horizon |-> horizon]
          /\ merged' = expected_points_per_90(history_df, players_df, position,
                          mins_threshold, time_period,
                          IF with_fdr THEN <<fdr_df>> ELSE NoTable, horizon)
          /\ history_df' = caller_history(history_df, position, time_period)
    /\ pc' = "ranked"
    /\ UNCHANGED <<players_df, fdr_df, tie_order, response>>
    /\ UNCHANGED <<fixtures, fetch_vars, guard_vars>>

\* index: calculations.expected_points_per_90(...) with the request's arguments
ExpectedPointsPer90 == RankCall(Positions, Thresholds, Windows, BOOLEAN, Horizons)

\* the same call once more, with the arguments of the last one
CallAgain ==
    /\ pc = "ranked"
    /\ merged' = expected_points_per_90(history_df, players_df, query.position,
                    query.mins_threshold, query.time_period,
                    IF query.fdr THEN <<fdr_df>> ELSE NoTable, query.horizon)
    /\ history_df' = caller_history(history_df, query.position, query.time_period)
    /\ UNCHANGED <<players_df, fdr_df, pc, query, tie_order, response>>
    /\ UNCHANGED <<fixtures, fetch_vars, guard_vars>>

\* the next request: load_data reads the saved tables again
LoadData ==
    /\ pc \in {"ranked", "failed", "responded"}
    /\ history_df' = [i \in 1..Len(history_df) |->
                        [c \in DOMAIN history_df[i] |->
                            IF c \in DOMAIN Unscored THEN Unscored[c]
                            ELSE history_df[i][c]]]
    /\ pc' = "loaded"
    /\ query' = NoQuery
    /\ merged' = NoResult
    /\ response' = NoResponse
    /\ UNCHANGED <<players_df, fdr_df, tie_order>>
    /\ UNCHANGED <<fixtures, fetch_vars, guard_vars>>

Next == CalculateExpectedPoints \/ ExpectedPointsPer90 \/ LoadData

Spec == Init /\ [][Next]_vars

(***************************************************************************)
(* app.py index: the view of the ranking                                   *)
(***************************************************************************)
\* round(x, digits) with scale = 10^digits: the nearest multiple of 1/scale,
\* a tie going to the even one
RoundTo(a, scale) ==
    IF ~IsFinite(a) THEN a
    ELSE LET x   == Mul(a, R(scale))
             fl  == x[1] \div x[2]
             rem == 2 * (x[1] - fl * x[2])
             r   == IF rem < x[2] THEN fl
                    ELSE IF rem > x[2] THEN fl + 1
                    ELSE IF fl % 2 = 0 THEN fl ELSE fl + 1
         IN  Q(r, scale)

\* format_player_data
format_player_data(rows) ==
    [i \in 1..Len(rows) |->
        [rows[i] EXCEPT
            !.actual_points = RoundTo(@, 100),
            !.expected_points = RoundTo(@, 100),
            !.actual_points_per_90 = RoundTo(@, 100),
            !.expected_points_per_90 = RoundTo(@, 100),
            !.now_cost = Div(@, R(10)),
            !.percentage_of_mins_played = RoundTo(Mul(@, R(100)), 100)]]

\* the largest and smallest finite value of a column (Series.max, Series.min
\* skip NaN), NaN when there is none
ColumnMax(rows, col) ==
    LET vals == { rows[i][col] : i \in { k \in 1..Len(rows) : IsFinite(rows[k][col]) } }
    IN  IF vals = {} THEN NaN
        ELSE CHOOSE v \in vals : \A w \in vals : Le(w, v)

ColumnMin(rows, col) ==
    LET vals == { rows[i][col] : i \in { k \in 1..Len(rows) : IsFinite(rows[k][col]) } }
    IN  IF vals = {} THEN NaN
        ELSE CHOOSE v \in vals : \A w \in vals : Le(v, w)

per_page == 10

\* the positions index ranks: the selected one, or all four in turn
positions_asked(selected_position) ==
    IF selected_position # "" THEN <<selected_position>>
    ELSE <<"GKP", "DEF", "MID", "FWD">>

\* pd.concat(dfs, ignore_index=True) of the tables returned for the positions
\* asked (a single table is left as it is); the first exception among the
\* calls ends index
RECURSIVE AllRows(_)
AllRows(dfs) == IF dfs = <<>> THEN <<>> ELSE Head(dfs).rows \o AllRows(Tail(dfs))

concat(dfs) ==
    IF \E i \in 1..Len(dfs) : dfs[i].error # ""
    THEN dfs[CHOOSE i \in 1..Len(dfs) :
               /\ dfs[i].error # ""
               /\ \A j \in 1..(i - 1) : dfs[j].error = ""]
    ELSE [dfs[1] EXCEPT !.rows = AllRows(dfs)]

\* variant of the page count without the floor of one page
total_pages_of_Quotient(total_players) == (total_players + per_page - 1) \div per_page

\* total_pages = max(1, (total_players + per_page - 1) // per_page)
total_pages_of(total_players) ==
    IF (total_players + per_page - 1) \div per_page < 1 THEN 1
    ELSE (total_players + per_page - 1) \div per_page

\* page = max(1, min(page, total_pages))
clamp_page(page, total_pages) ==
    LET low == IF page < total_pages THEN page ELSE total_pages
    IN  IF low < 1 THEN 1 ELSE low

\* global_price_min, global_price_max (4.0 and 15.0 for an empty table) and
\* price_max, which is not given in the request and defaults to the maximum
price_bounds(df) ==
    [global_price_min |->
         IF Len(df) > 0 THEN RoundTo(ColumnMin(df, "now_cost"), 10) ELSE R(4),
     global_price_max |->
         IF Len(df) > 0 THEN RoundTo(ColumnMax(df, "now_cost"), 10) ELSE R(15),
     price_max |->
         IF Len(df) > 0 THEN RoundTo(ColumnMax(df, "now_cost"), 10) ELSE R(15)]

\* df[df['now_cost'] <= price_max]
price_filter(df, price_max) == SelectSeq(df, LAMBDA r : Le(r.now_cost, price_max))

\* the rows start_idx .. start_idx + per_page - 1 (counted from 0) of the
\* sorted table, each with its rank
page_players(sorted, start_idx) ==
    [i \in 1..(IF Len(sorted) - start_idx > per_page THEN per_page
               ELSE IF Len(sorted) > start_idx THEN Len(sorted) - start_idx ELSE 0) |->
        [sorted[start_idx + i] EXCEPT !.index = start_idx + i - 1]
            @@ [rank |-> start_idx + i]]

\* lines 165-183: the page of the sorted table
page_data(sorted, current) ==
    [status |-> 200,
     players |-> page_players(sorted, (current - 1) * per_page),
     total_players |-> Len(sorted),
     total_pages |-> total_pages_of(Len(sorted)),
     current_page |-> current,
     start_rank |-> (current - 1) * per_page + 1,
     end_rank |-> IF (current - 1) * per_page + per_page < Len(sorted)
                  THEN (current - 1) * per_page + per_page ELSE Len(sorted)]

\* lines 143-183 on the formatted table: the rows within the price sorted by
\* expected_points in descending order (the request names no team and no
\* other sort), and the page asked for, clamped to the pages there are
position_data(df, page) ==
    page_data(sort_values(price_filter(df, price_bounds(df).price_max)),
              clamp_page(page, total_pages_of(
                  Len(price_filter(df, price_bounds(df).price_max)))))
        @@ price_bounds(df)

\* the request parameters drawn: position '' (all), a position no player of
\* players_df has, and one the first player has
ViewPositions == {"", "GKP", "MID"}

\* mins: the default, and a share no player reaches
ViewMins == {70, 101}

ViewPages == {1, 3}

\* games: the default, min(5, max_games)
ViewGames == {5}

DefaultHorizon == 5

\* time_period if time_period < max_games else None
time_period_of(games, max_games) ==
    LET requested == IF games < max_games THEN games ELSE max_games
    IN  IF requested < max_games THEN requested ELSE None

\* horizon_arg = horizon if adjust_difficulty else None
horizon_arg(adjust_difficulty) == IF adjust_difficulty THEN DefaultHorizon ELSE None

\* the answer: the page rendered, or status 500 for any exception
response_of(table, page) ==
    IF table.error # "" THEN [status |-> 500, error |-> table.error]
    ELSE position_data(format_player_data(table.rows), page)

\* index after load_data: the ranking of the request computed (one call for
\* the selected position, or the four positions in turn) and rendered
Index ==
    /\ pc = "scored"
    /\ \E selected_position \in ViewPositions, page \in ViewPages, mins \in ViewMins,
          games \in ViewGames, adjust_difficulty \in BOOLEAN :
          /\ query' = [position |-> selected_position,
                       mins_threshold |-> Q(mins, 100),
                       time_period |-> time_period_of(games, latest_round(history_df)),
                       fdr |-> adjust_difficulty,
                       horizon |-> horizon_arg(adjust_difficulty)]
          /\ merged' =
               concat([i \in 1..Len(positions_asked(selected_position)) |->
                         expected_points_per_90(history_df, players_df,
                             positions_asked(selected_position)[i],
                             query'.mins_threshold, query'.time_period,
                             IF query'.fdr THEN <<fdr_df>> ELSE NoTable,
                             query'.horizon)])
          /\ response' = response_of(merged', page)
    /\ pc' = "responded"
    /\ UNCHANGED <<history_df, players_df, fdr_df, tie_order>>
    /\ UNCHANGED <<fixtures, fetch_vars, guard_vars>>

InitView ==
    /\ history_df \in Histories
    /\ players_df \in PlayersTables
    /\ fdr_df = FdrRows
    /\ pc = "loaded"
    /\ query = NoQuery
    /\ merged = NoResult
    /\ tie_order \in TieOrders
    /\ response = NoResponse
    /\ LoaderIdle

NextView == CalculateExpectedPoints \/ Index \/ LoadData

SpecView == InitView /\ [][NextView]_vars

(***************************************************************************)
(* Tables with missing and text cells (a CSV written by another program)   *)
(***************************************************************************)
\* the sequences of n rows drawn from Rows
RECURSIVE TablesOfLen(_, _)
TablesOfLen(Rows, n) ==
    IF n = 0 THEN {<<>>}
    ELSE { Append(h, row) : h \in TablesOfLen(Rows, n - 1), row \in Rows }

\* the tables of 1..MaxRows rows in the order fetch_all_histories leaves them,
\* one row per (element, round, opponent_team_name)
SortedTables(Rows) ==
    { h \in UNION { TablesOfLen(Rows, n) : n \in 1..MaxRows } :
        \A i \in 1..(Len(h) - 1) : KeyLt(h[i], h[i + 1]) }

\* the full match of StatLines
FullMatch == CHOOSE st \in StatLines : st.minutes = R(90)

\* the full match with one cell missing or holding text
MalformedLines ==
    { FullMatch,
      [FullMatch EXCEPT !.expected_goals = NaN],
      [FullMatch EXCEPT !.expected_assists = NonNumeric],
      [FullMatch EXCEPT !.minutes = NonNumeric],
      [FullMatch EXCEPT !.minutes = NaN] }

MalformedRows ==
    { [element |-> e, round |-> r, opponent_team_name |-> o,
       fixture_difficulty |-> d] @@ st @@ Unscored :
        e \in Elements, r \in Rounds, o \in Opponents,
        d \in {R(3), NonNumeric}, st \in MalformedLines }

InitMalformed ==
    /\ history_df \in SortedTables(MalformedRows)
    /\ players_df \in PlayersTables
    /\ fdr_df = FdrRows
    /\ pc = "loaded"
    /\ query = NoQuery
    /\ merged = NoResult
    /\ tie_order \in TieOrders
    /\ response = NoResponse
    /\ LoaderIdle

RankMalformed == RankCall({NoStr}, {NoThreshold}, Windows, BOOLEAN, {1})

NextMalformed == CalculateExpectedPoints \/ RankMalformed \/ CallAgain \/ LoadData

SpecMalformed == InitMalformed /\ [][NextMalformed]_vars

(***************************************************************************)
(* Tables with repeated fixtures, unknown opponents and unknown            *)
(* difficulties, and players missing from players_df                       *)
(***************************************************************************)
\* a match the player left after 63 minutes
Match63 == [FullMatch EXCEPT !.minutes = R(63)]

\* the matches of StatLines with minutes played, and the 63-minute match
FixtureLines == { st \in StatLines : st.minutes # R(0) } \cup {Match63}

\* fixture_difficulty is missing where the merge with the fixture table found
\* no fixture, opponent_team_name where team_map lacks the opponent's id
FixtureRows ==
    { [element |-> e, round |-> r, opponent_team_name |-> o,
       fixture_difficulty |-> d] @@ st @@ Unscored :
        e \in Elements, r \in Rounds, o \in {"A", NoStr},
        d \in {R(3), R(5), NaN}, st \in FixtureLines }

\* data/player_histories.csv as read back: sorted by element and round, a key
\* may be held by more than one row
FixtureTables ==
    { h \in UNION { TablesOfLen(FixtureRows, n) : n \in 1..MaxRows } :
        \A i \in 1..(Len(h) - 1) :
            \/ h[i].element < h[i + 1].element
            \/ h[i].element = h[i + 1].element /\ h[i].round <= h[i + 1].round }

\* players_df with every player, and with the last one missing
PartialPlayersTables ==
    PlayersTables \cup { [e \in Elements \ {NumPlayers} |-> p[e]] : p \in PlayersTables }

\* the thresholds of a request: none, and mins = 70
FixtureThresholds == {NoThreshold, Q(7, 10)}

InitFixtures ==
    /\ history_df \in FixtureTables
    /\ players_df \in PartialPlayersTables
    /\ fdr_df = FdrRows
    /\ pc = "loaded"
    /\ query = NoQuery
    /\ merged = NoResult
    /\ tie_order \in TieOrders
    /\ response = NoResponse
    /\ LoaderIdle

RankFixtures == RankCall({NoStr}, FixtureThresholds, {None}, {FALSE}, {None})

NextFixtures == CalculateExpectedPoints \/ RankFixtures \/ LoadData

SpecFixtures == InitFixtures /\ [][NextFixtures]_vars

(***************************************************************************)
(* Tables of full matches whose difficulties are partly unknown            *)
(***************************************************************************)
\* rows enough for a difficulty-3 match beside two more matches
MaxDifficultyRows == 3

DifficultyRows ==
    { [element |-> e, round |-> r, opponent_team_name |-> o,
       fixture_difficulty |-> d] @@ FullMatch @@ Unscored :
        e \in Elements, r \in Rounds, o \in Opponents, d \in {R(3), R(5), NaN} }

DifficultyTables ==
    { h \in UNION { TablesOfLen(DifficultyRows, n) : n \in 1..MaxDifficultyRows } :
        \A i \in 1..(Len(h) - 1) :
            \/ h[i].element < h[i + 1].element
            \/ h[i].element = h[i + 1].element /\ h[i].round <= h[i + 1].round }

InitDifficulty ==
    /\ history_df \in DifficultyTables
    /\ players_df \in PartialPlayersTables
    /\ fdr_df = FdrRows
    /\ pc = "loaded"
    /\ query = NoQuery
    /\ merged = NoResult
    /\ tie_order \in TieOrders
    /\ response = NoResponse
    /\ LoaderIdle

RankDifficulty == RankCall({NoStr}, {NoThreshold}, {None}, {FALSE}, {None})

NextDifficulty == CalculateExpectedPoints \/ RankDifficulty \/ LoadData

SpecDifficulty == InitDifficulty /\ [][NextDifficulty]_vars

(***************************************************************************)
(* fpl/history.py fetch_player_history, fetch_all_histories                *)
(***************************************************************************)
\* the players whose histories are fetched
NumFetched == 3

\* max_workers of the call
MaxWorkers == 2

FetchIds == 1..NumFetched

\* team_map: team id to name
team_map == <<"A", "B", "C">>

\* one object of the "history" list of element-summary/{id}/
ApiRow(p, r, opponent) == [element |-> p, round |-> r, opponent_team |-> opponent]

\* what fetch_data answers for player p: an HTTP error, an answer without
\* "history", an empty history list, one match, the two matches of a double
\* gameweek, and a match in each round
ApiAnswers(p) ==
    { [kind |-> "error", history |-> <<>>],
      [kind |-> "nodata", history |-> <<>>],
      [kind |-> "history", history |-> <<>>],
      [kind |-> "history", history |-> <<ApiRow(p, 1, 2)>>],
      [kind |-> "history", history |-> <<ApiRow(p, 1, 3), ApiRow(p, 1, 2)>>],
      [kind |-> "history", history |-> <<ApiRow(p, 1, 2), ApiRow(p, 2, 3)>>] }

\* Series.map(team_map)
opponent_name(id) == IF id \in DOMAIN team_map THEN team_map[id] ELSE NoStr

\* variant answering an empty table where the fetch fails
fetch_player_history_Swallow(answer) ==
    [raised |-> FALSE,
     rows |-> [i \in 1..Len(answer.history) |->
                 [element |-> answer.history[i].element,
                  round |-> answer.history[i].round,
                  opponent_team_name |-> opponent_name(answer.history[i].opponent_team)]]]

\* fetch_player_history: the exception of fetch_data propagates; an answer
\* without "history" gives an empty table; of an empty history list the frame
\* has no column, and df["opponent_team"] raises KeyError
fetch_player_history(answer) ==
    IF answer.kind = "error" THEN [raised |-> TRUE, rows |-> <<>>]
    ELSE IF answer.kind = "nodata" THEN [raised |-> FALSE, rows |-> <<>>]
    ELSE IF answer.history = <<>> THEN [raised |-> TRUE, rows |-> <<>>]
    ELSE [raised |-> FALSE,
          rows |-> [i \in 1..Len(answer.history) |->
                      [element |-> answer.history[i].element,
                       round |-> answer.history[i].round,
                       opponent_team_name |-> opponent_name(answer.history[i].opponent_team)]]]

\* a row's place in the order of sort_values(by=["element", "round"])
ElementRoundLe(a, b) ==
    \/ a.element < b.element
    \/ a.element = b.element /\ a.round <= b.round

\* a sort on two columns goes through lexsort, which is stable: a row is put
\* behind the rows that do not come after it
RECURSIVE InsertStable(_, _)
InsertStable(sorted, row) ==
    IF sorted = <<>> THEN <<row>>
    ELSE IF ElementRoundLe(Head(sorted), row)
         THEN <<Head(sorted)>> \o InsertStable(Tail(sorted), row)
         ELSE <<row>> \o sorted

\* variant leaving the concatenation unsorted
sort_by_element_round_Unsorted(rows) == rows

\* .sort_values(by=["element", "round"]).reset_index(drop=True)
RECURSIVE sort_by_element_round(_)
sort_by_element_round(rows) ==
    IF rows = <<>> THEN <<>>
    ELSE InsertStable(sort_by_element_round(SubSeq(rows, 1, Len(rows) - 1)),
                      rows[Len(rows)])

\* pd.concat(all_histories, ignore_index=True)
RECURSIVE concat_histories(_)
concat_histories(dfs) ==
    IF dfs = <<>> THEN <<>> ELSE Head(dfs) \o concat_histories(Tail(dfs))

Running == { p \in DOMAIN futures : futures[p] = "running" }

InitFetch ==
    /\ api \in [FetchIds -> UNION { ApiAnswers(p) : p \in FetchIds }]
    /\ \A p \in FetchIds : api[p] \in ApiAnswers(p)
    /\ futures = [p \in FetchIds |-> "pending"]
    /\ finished_order = <<>>
    /\ all_histories = <<>>
    /\ fetch = [pc |-> "collecting", consumed |-> 0, table |-> <<>>]
    /\ fixtures = <<>>
    /\ stamp = [state |-> "absent"] /\ today = 1 /\ files = <<>>
    /\ procs = <<>> /\ refreshed = <<>>
    /\ history_df = <<>> /\ players_df = <<>> /\ fdr_df = {}
    /\ pc = "fetching" /\ query = NoQuery /\ merged = NoResult
    /\ tie_order = <<>> /\ response = NoResponse

\* a worker thread takes the next submitted call from the queue
WorkerStart ==
    /\ \E p \in DOMAIN futures :
          /\ futures[p] = "pending"
          /\ \A q \in DOMAIN futures : q < p => futures[q] # "pending"
          /\ Cardinality(Running) < MaxWorkers
          /\ futures' = [futures EXCEPT ![p] = "running"]
    /\ UNCHANGED <<api, finished_order, all_histories, fetch>>
    /\ UNCHANGED <<pipeline_vars, fixtures, guard_vars>>

\* a running call of fetch_player_history ends, with a table or an exception
WorkerFinish ==
    /\ \E p \in Running :
          /\ futures' = [futures EXCEPT ![p] = "finished"]
          /\ finished_order' = Append(finished_order, p)
    /\ UNCHANGED <<api, all_histories, fetch>>
    /\ UNCHANGED <<pipeline_vars, fixtures, guard_vars>>

\* one turn of the loop over as_completed(futures): future.result() raises
\* what the call raised, and a table that is not empty is appended
Collect ==
    /\ fetch.pc = "collecting"
    /\ fetch.consumed < Len(finished_order)
    /\ IF fetch_player_history(api[finished_order[fetch.consumed + 1]]).raised
       THEN /\ fetch' = [fetch EXCEPT !.pc = "unwinding"]
            /\ all_histories' = all_histories
       ELSE /\ fetch' = [fetch EXCEPT !.consumed = @ + 1]
            /\ all_histories' =
                 IF fetch_player_history(api[finished_order[fetch.consumed + 1]]).rows = <<>>
                 THEN all_histories
                 ELSE Append(all_histories,
                        fetch_player_history(api[finished_order[fetch.consumed + 1]]).rows)
    /\ UNCHANGED <<api, futures, finished_order>>
    /\ UNCHANGED <<pipeline_vars, fixtures, guard_vars>>

\* the exception leaves the with block: the executor's shutdown(wait=True)
\* waits for every submitted call, then fetch_all_histories raises
Unwind ==
    /\ fetch.pc = "unwinding"
    /\ \A p \in DOMAIN futures : futures[p] = "finished"
    /\ fetch' = [fetch EXCEPT !.pc = "raised"]
    /\ UNCHANGED <<api, futures, finished_order, all_histories>>
    /\ UNCHANGED <<pipeline_vars, fixtures, guard_vars>>

\* the loop has seen every future: lines 85-92
Return ==
    /\ fetch.pc = "collecting"
    /\ fetch.consumed = Cardinality(DOMAIN futures)
    /\ fetch' = [fetch EXCEPT !.pc = "returned",
                   !.table = sort_by_element_round(concat_histories(all_histories))]
    /\ UNCHANGED <<api, futures, finished_order, all_histories>>
    /\ UNCHANGED <<pipeline_vars, fixtures, guard_vars>>

NextFetch == WorkerStart \/ WorkerFinish \/ Collect \/ Unwind \/ Return

SpecFetch == InitFetch /\ [][NextFetch]_vars

(***************************************************************************)
(* retrieve_data: the fixture difficulty map and its merge onto the        *)
(* fetched histories (helpers/loading.py)                                  *)
(***************************************************************************)
\* the players of the merge: element e plays for team e
NumMerged == 2

\* the rounds a fixture is scheduled in; an unscheduled one has event None
Events == {1, 2, None}

\* the difficulty ratings a side of a fixture has
Ratings == {2, 4}

\* one object of the fixtures/ endpoint
FixtureObjects ==
    { f \in [event : Events, team_h : DOMAIN team_map, team_a : DOMAIN team_map,
             team_h_difficulty : Ratings, team_a_difficulty : Ratings] :
        f.team_h # f.team_a }

\* what fetch_data("fixtures/") answers: up to two fixtures
FixtureLists ==
    { <<>> } \cup { <<f>> : f \in FixtureObjects }
             \cup { <<f, g>> : f \in FixtureObjects, g \in FixtureObjects }

\* players_df of the merge
MergePlayers ==
    [e \in 1..NumMerged |->
        [team |-> e, position |-> PositionNames[e],
         now_cost |-> preprocess_now_cost(raw_now_cost(e))]]

\* the history rows the API holds of the players: one per scheduled fixture of
\* the player's team, the opponent named by team_map, as fetch_all_histories
\* returns them (sorted by element and round)
RECURSIVE played_rows(_, _)
played_rows(fs, players) ==
    IF fs = <<>> THEN <<>>
    ELSE LET f == fs[Len(fs)]
             sides == { f.team_h, f.team_a }
             of_f == [e \in 1..Len(players) |->
                        IF f.event # None /\ players[e].team \in sides
                        THEN << [element |-> e, round |-> f.event,
                                 opponent_team_name |->
                                     opponent_name(CHOOSE t \in sides :
                                         sides = {t} \cup {players[e].team} /\ t # players[e].team)] >>
                        ELSE <<>>]
         IN  played_rows(SubSeq(fs, 1, Len(fs) - 1), players) \o concat_histories(of_f)

played_history(fs, players) == sort_by_element_round(played_rows(fs, players))

\* _build_fixture_difficulty_map: two rows per scheduled fixture, one per side
RECURSIVE build_fixture_difficulty_map(_)
build_fixture_difficulty_map(fs) ==
    IF fs = <<>> THEN <<>>
    ELSE LET f == Head(fs)
         IN  (IF f.event = None THEN <<>>
              ELSE << [round |-> f.event, team_id |-> f.team_h, opponent_id |-> f.team_a,
                       fixture_difficulty |-> R(f.team_h_difficulty), was_home |-> TRUE],
                      [round |-> f.event, team_id |-> f.team_a, opponent_id |-> f.team_h,
                       fixture_difficulty |-> R(f.team_a_difficulty), was_home |-> FALSE] >>)
             \o build_fixture_difficulty_map(Tail(fs))

\* history_df["element"].map(players_df["team"])
team_id_of(e, players) == IF e \in DOMAIN players THEN players[e].team ELSE None

\* the left merge on (round, _team_id) = (round, team_id): a history row once
\* per row of fdr_df with its key, in fdr_df's order, and once with a missing
\* difficulty where no row has it
merge_row(row, players, fdr) ==
    LET hits == SelectSeq(fdr, LAMBDA x : x.round = row.round
                                       /\ x.team_id = team_id_of(row.element, players))
    IN  IF hits = <<>> THEN << row @@ [fixture_difficulty |-> NaN] >>
        ELSE [i \in 1..Len(hits) |->
                 row @@ [fixture_difficulty |-> hits[i].fixture_difficulty]]

\* the subset of drop_duplicates
fixture_key(row) == <<row.element, row.round, row.opponent_team_name>>

\* drop_duplicates(subset=[...]): the first row of every key stays
RECURSIVE drop_duplicates_key(_)
drop_duplicates_key(rows) ==
    IF rows = <<>> THEN <<>>
    ELSE LET init == drop_duplicates_key(SubSeq(rows, 1, Len(rows) - 1))
             last == rows[Len(rows)]
         IN  IF \E i \in 1..Len(init) : fixture_key(init[i]) = fixture_key(last)
             THEN init ELSE Append(init, last)

\* _merge_fixture_difficulty
merge_fixture_difficulty(history, players, fdr) ==
    drop_duplicates_key(
        concat_histories([i \in 1..Len(history) |-> merge_row(history[i], players, fdr)]))

InitMerge ==
    /\ fixtures \in FixtureLists
    /\ players_df = MergePlayers
    /\ fetch = [pc |-> "returned", consumed |-> 0,
                table |-> played_history(fixtures, players_df)]
    /\ api = <<>> /\ futures = <<>> /\ finished_order = <<>> /\ all_histories = <<>>
    /\ stamp = [state |-> "absent"] /\ today = 1 /\ files = <<>>
    /\ procs = <<>> /\ refreshed = <<>>
    /\ history_df = <<>> /\ fdr_df = <<>>
    /\ pc = "fetched" /\ query = NoQuery /\ merged = NoResult
    /\ tie_order = <<>> /\ response = NoResponse

\* retrieve_data after fetch_all_histories: the fixtures are fetched, the map
\* built and the difficulty merged onto the histories
MergeFixtureDifficulty ==
    /\ pc = "fetched"
    /\ fetch.pc = "returned"
    /\ fdr_df' = build_fixture_difficulty_map(fixtures)
    /\ history_df' = merge_fixture_difficulty(fetch.table, players_df, fdr_df')
    /\ pc' = "retrieved"
    /\ UNCHANGED <<players_df, query, merged, tie_order, response>>
    /\ UNCHANGED <<fixtures, fetch_vars, guard_vars>>

NextMerge == MergeFixtureDifficulty

SpecMerge == InitMerge /\ [][NextMerge]_vars

(***************************************************************************)
(* load_data and the update guard (app.py, helpers/update_guard.py,        *)
(* helpers/loading.py initialise_data and save_data)                       *)
(***************************************************************************)
\* the last UTC day of a behaviour; the first is day 2, day 1 is yesterday
MaxDay == 3

\* the calls of initialise_data of a behaviour at most
MaxCalls == 3

\* the load_data calls that overlap at most (threads of the web server)
NumRequests == 2

\* str(datetime.now(tz=timezone.utc).date())
DateStr == <<"2025-01-01", "2025-01-02", "2025-01-03">>

str_date(d) == DateStr[d]

Whitespace == {"\n", " "}

\* str.strip() of a text, here a sequence of tokens
RECURSIVE strip(_)
strip(text) ==
    IF text = <<>> THEN <<>>
    ELSE IF Head(text) \in Whitespace THEN strip(Tail(text))
    ELSE IF text[Len(text)] \in Whitespace THEN strip(SubSeq(text, 1, Len(text) - 1))
    ELSE text

\* the stamp file: absent, present and not readable (open raises OSError), or
\* a text
StampOf(text) == [state |-> "text", text |-> text]

NoStamp == [state |-> "absent", text |-> <<>>]

Unreadable == [state |-> "unreadable", text |-> <<>>]

\* variant without the try: read_text raises where the file cannot be read
should_update_NoTry(s, day) ==
    IF s.state = "absent" THEN [raised |-> FALSE, value |-> TRUE]
    ELSE IF s.state = "unreadable" THEN [raised |-> TRUE, value |-> FALSE]
    ELSE [raised |-> FALSE, value |-> strip(s.text) # <<str_date(day)>>]

\* should_update
should_update(s, day) ==
    IF s.state = "absent" THEN [raised |-> FALSE, value |-> TRUE]
    ELSE IF s.state = "unreadable" THEN [raised |-> FALSE, value |-> TRUE]
    ELSE [raised |-> FALSE, value |-> strip(s.text) # <<str_date(day)>>]

\* what mark_updated writes
mark_text(day) == <<str_date(day), "\n">>

\* the files of save_data, in the order written and read
FileNames == <<"players_data.csv", "player_histories.csv", "fixture_difficulty_ratings.csv", "scoring.json">>

\* a file: the day its data was retrieved (0: no file) and the call of
\* initialise_data that wrote it (0: a run before the behaviour)
NoFile == [day |-> 0, by |-> 0]

\* a thread of the server between two requests
IdleRequest ==
    [pc |-> "idle", step |-> 0, answer |-> [raised |-> FALSE, value |-> FALSE],
     saw |-> NoStamp, day |-> 0, call |-> 0, data |-> 0, prev |-> "none", seen |-> <<>>]

Ended == {"idle", "returned", "raised_guard", "raised_retrieve", "raised_save", "raised_mark", "raised_read"}

\* the stamps and files a run finds: no stamp, an unreadable one, an empty
\* one, yesterday's, today's; no files or yesterday's
InitLoader(n) ==
    /\ today = 2
    /\ stamp \in { NoStamp, Unreadable, StampOf(<<>>), StampOf(mark_text(1)),
                   StampOf(mark_text(2)), StampOf(<<str_date(2)>>) }
    /\ files \in { [k \in DOMAIN FileNames |-> NoFile],
                   [k \in DOMAIN FileNames |-> [day |-> 1, by |-> 0]] }
    /\ procs = [p \in 1..n |-> IdleRequest]
    /\ refreshed = [calls |-> <<>>, marked |-> 0]
    /\ fixtures = <<>>
    /\ api = <<>> /\ futures = <<>> /\ finished_order = <<>> /\ all_histories = <<>>
    /\ fetch = [pc |-> "idle"]
    /\ history_df = <<>> /\ players_df = <<>> /\ fdr_df = <<>>
    /\ pc = "loading" /\ query = NoQuery /\ merged = NoResult
    /\ tie_order = <<>> /\ response = NoResponse

\* load_data begins: should_update decides between the refresh and the local
\* files
ShouldUpdate(p) ==
    /\ procs[p].pc \in Ended
    /\ should_update(stamp, today).value => Len(refreshed.calls) < MaxCalls
    /\ procs' = [procs EXCEPT ![p] =
          [pc |-> IF should_update(stamp, today).raised THEN "raised_guard"
                  ELSE IF should_update(stamp, today).value THEN "retrieve" ELSE "read",
           step |-> 0, answer |-> should_update(stamp, today), saw |-> stamp,
           day |-> today,
           call |-> IF should_update(stamp, today).value
                    THEN Len(refreshed.calls) + 1 ELSE 0,
           data |-> 0, prev |-> procs[p].pc, seen |-> <<>>]]
    /\ refreshed' = [refreshed EXCEPT !.calls =
          IF should_update(stamp, today).value
          THEN Append(@, [request |-> p, day |-> today]) ELSE @]
    /\ UNCHANGED <<stamp, today, files>>
    /\ UNCHANGED <<pipeline_vars, fixtures, fetch_vars>>

\* initialise_data: retrieve_data fetches and builds the tables, or raises
RetrieveData(p, ok) ==
    /\ procs[p].pc = "retrieve"
    /\ procs' = [procs EXCEPT ![p].pc = IF ok THEN "save" ELSE "raised_retrieve",
                              ![p].data = IF ok THEN today ELSE 0]
    /\ UNCHANGED <<stamp, today, files, refreshed>>
    /\ UNCHANGED <<pipeline_vars, fixtures, fetch_vars>>

\* variant writing the stamp with the first file
SaveData_StampFirst(p, ok) ==
    /\ procs[p].pc = "save"
    /\ files' = IF ok THEN [files EXCEPT ![procs[p].step + 1] =
                              [day |-> procs[p].data, by |-> procs[p].call]]
                ELSE files
    /\ stamp' = StampOf(mark_text(today))
    /\ procs' = [procs EXCEPT ![p].pc = IF ~ok THEN "raised_save"
                                        ELSE IF procs[p].step + 1 = Len(FileNames)
                                             THEN "mark" ELSE "save",
                              ![p].step = IF ok THEN @ + 1 ELSE @]
    /\ UNCHANGED <<today, refreshed>>
    /\ UNCHANGED <<pipeline_vars, fixtures, fetch_vars>>

\* save_data writes its next file, or raises
SaveData(p, ok) ==
    /\ procs[p].pc = "save"
    /\ files' = IF ok THEN [files EXCEPT ![procs[p].step + 1] =
                              [day |-> procs[p].data, by |-> procs[p].call]]
                ELSE files
    /\ procs' = [procs EXCEPT ![p].pc = IF ~ok THEN "raised_save"
                                        ELSE IF procs[p].step + 1 = Len(FileNames)
                                             THEN "mark" ELSE "save",
                              ![p].step = IF ok THEN @ + 1 ELSE @]
    /\ UNCHANGED <<stamp, today, refreshed>>
    /\ UNCHANGED <<pipeline_vars, fixtures, fetch_vars>>

\* mark_updated writes today's date, or raises RuntimeError with the stamp
\* as it was or emptied by open(..., "w")
MarkUpdated(p, ok) ==
    /\ procs[p].pc = "mark"
    /\ \E left \in (IF stamp.state = "unreadable" THEN {stamp} ELSE {stamp, StampOf(<<>>)}) :
          /\ stamp' = IF ok THEN StampOf(mark_text(today)) ELSE left
          /\ refreshed' = [refreshed EXCEPT !.marked =
                IF ok THEN today ELSE IF left = stamp THEN @ ELSE 0]
    /\ procs' = [procs EXCEPT ![p].pc = IF ok THEN "returned" ELSE "raised_mark"]
    /\ UNCHANGED <<today, files>>
    /\ UNCHANGED <<pipeline_vars, fixtures, fetch_vars>>

\* the else branch reads its next file; a missing file raises
ReadLocal(p) ==
    /\ procs[p].pc = "read"
    /\ procs' = [procs EXCEPT
          ![p].pc = IF files[procs[p].step + 1] = NoFile THEN "raised_read"
                    ELSE IF procs[p].step + 1 = Len(FileNames) THEN "returned"
                    ELSE "read",
          ![p].step = @ + 1,
          ![p].seen = Append(@, files[procs[p].step + 1])]
    /\ UNCHANGED <<stamp, today, files, refreshed>>
    /\ UNCHANGED <<pipeline_vars, fixtures, fetch_vars>>

\* the UTC date changes
Midnight ==
    /\ today < MaxDay
    /\ today' = today + 1
    /\ UNCHANGED <<stamp, files, procs, refreshed>>
    /\ UNCHANGED <<pipeline_vars, fixtures, fetch_vars>>

\* one request at a time, any step of which may fail, over several days
InitGuard == InitLoader(1)

NextGuard ==
    \/ ShouldUpdate(1)
    \/ \E ok \in BOOLEAN : RetrieveData(1, ok)
    \/ \E ok \in BOOLEAN : SaveData(1, ok)
    \/ \E ok \in BOOLEAN : MarkUpdated(1, ok)
    \/ ReadLocal(1)
    \/ Midnight

SpecGuard == InitGuard /\ [][NextGuard]_vars

\* overlapping requests within one day, no step of which fails
InitRequests == InitLoader(NumRequests)

NextRequests ==
    \E p \in 1..NumRequests :
        \/ ShouldUpdate(p)
        \/ RetrieveData(p, TRUE)
        \/ SaveData(p, TRUE)
        \/ MarkUpdated(p, TRUE)
        \/ ReadLocal(p)

SpecRequests == InitRequests /\ [][NextRequests]_vars

(***************************************************************************)
(* Properties                                                              *)
(***************************************************************************)
\* the call returned a table
Returned == pc = "ranked" /\ merged.error = ""

\* the horizon adjustment was asked for
Adjusted == query.fdr /\ query.horizon # None

\* the rows of history_df the call aggregates
Selected == filter_rows(history_df, query.position, query.time_period)

RowsOf(rows, e) == SelectSeq(rows, LAMBDA r : r.element = e)

InOutput(e) == \E i \in 1..Len(merged.rows) : merged.rows[i].element = e

OutRow(e) == merged.rows[CHOOSE i \in 1..Len(merged.rows) : merged.rows[i].element = e]

\* the four components the scenario of the specification names, for one match
MatchPoints(row) ==
    SumAll(<<goal_points(row, row.pos_abbr),
             expected_clean_sheet_points(row, row.pos_abbr),
             conceded_points(row, row.pos_abbr),
             long_short_points(row)>>)

\* player e has exactly two rows, in two rounds, of 90 minutes each, and the
\* call has no position filter, threshold, window or horizon adjustment
C1_Case(e) ==
    /\ Returned
    /\ Len(RowsOf(history_df, e)) = 2
    /\ RowsOf(history_df, e)[1].round # RowsOf(history_df, e)[2].round
    /\ \A i \in 1..2 : RowsOf(history_df, e)[i].minutes = R(90)
    /\ query.position = NoStr /\ query.mins_threshold = NoThreshold
    /\ query.time_period = None /\ ~Adjusted

C1_BothMatches(e) ==
    Add(MatchPoints(RowsOf(history_df, e)[1]), MatchPoints(RowsOf(history_df, e)[2]))

\* C1 as stated: the expected_points returned for a player with two full
\* matches is the sum of the per-match expected points of both matches.
C1_Original ==
    \A e \in Elements : C1_Case(e) =>
        InOutput(e) /\ OutRow(e).expected_points = C1_BothMatches(e)

\* C1 amended: the expected_points returned for a player with two full matches
\* in two rounds is the sum of the per-match expected points of both matches
\* divided by the number of fixtures, 2 (the mean per match).
C1_MeanPerMatch ==
    \A e \in Elements : C1_Case(e) =>
        /\ InOutput(e)
        /\ OutRow(e).expected_points = Div(C1_BothMatches(e), R(2))
        /\ \A i \in 1..2 : RowsOf(history_df, e)[i].expected_points
                              = MatchPoints(RowsOf(history_df, e)[i])

C1_Witness ==
    \E e \in Elements : C1_Case(e) /\ InOutput(e)
        /\ Lt(R(0), OutRow(e).expected_points)

\* C2: a row with minutes = 0 has both per-90 rates 0 after
\* calculate_expected_points, and a player whose selected rows sum to 0 minutes
\* has both per-90 rates 0 in the ranking, with or without the adjustment.
C2_ZeroMinutes ==
    /\ pc # "loaded" =>
         \A i \in 1..Len(history_df) : history_df[i].minutes = R(0) =>
             /\ history_df[i].expected_points_per_90 = R(0)
             /\ history_df[i].actual_points_per_90 = R(0)
    /\ Returned =>
         \A i \in 1..Len(merged.rows) :
             SumSeq(Column(RowsOf(Selected, merged.rows[i].element), "minutes")) = R(0)
             => /\ merged.rows[i].expected_points_per_90 = R(0)
                /\ merged.rows[i].actual_points_per_90 = R(0)

\* a player with no minutes but points (a card on the bench) is ranked with the
\* adjustment on
C2_Witness ==
    /\ Returned /\ Adjusted
    /\ \E i \in 1..Len(merged.rows) :
         /\ SumSeq(Column(RowsOf(Selected, merged.rows[i].element), "minutes")) = R(0)
         /\ SumSeq(Column(RowsOf(Selected, merged.rows[i].element), "expected_points"))
               # R(0)
         /\ merged.rows[i].scale # R(1)

\* C3: after calculate_expected_points a row with minutes > 0 and a red card
\* has per-90 rates equal to its raw totals; one with minutes > 0 and no red
\* card has (total / minutes) * 90.
C3_RedCard ==
    pc # "loaded" =>
        \A i \in 1..Len(history_df) :
            LET row == history_df[i]
            IN  Lt(R(0), row.minutes) =>
                  IF row.red_cards # R(0)
                  THEN /\ row.expected_points_per_90 = row.expected_points
                       /\ row.actual_points_per_90 = row.total_points
                  ELSE /\ row.expected_points_per_90
                            = Mul(Div(row.expected_points, row.minutes), R(90))
                       /\ row.actual_points_per_90
                            = Mul(Div(row.total_points, row.minutes), R(90))

\* a sent-off player with fewer than 90 minutes and non-zero totals
C3_Witness ==
    /\ pc = "scored"
    /\ \E i \in 1..Len(history_df) :
         /\ history_df[i].red_cards # R(0)
         /\ Lt(R(0), history_df[i].minutes) /\ Lt(history_df[i].minutes, R(90))
         /\ history_df[i].expected_points # R(0)
         /\ history_df[i].expected_points_per_90 = history_df[i].expected_points

\* the difficulty levels of history_df and the mean expected_points of one
Has3 == \E i \in 1..Len(history_df) : history_df[i].fixture_difficulty = R(3)

MeanAt(level) ==
    MeanSeq(Column(SelectSeq(history_df, LAMBDA r : r.fixture_difficulty = level),
                   "expected_points"))

\* C4 as stated: build_difficulty_lookup raises both when no row has
\* fixture_difficulty 3 and when the level-3 rows have mean expected_points 0.
C4_Original ==
    pc = "ranked" => ((~Has3 \/ MeanAt(R(3)) = R(0)) => merged.error # "")

\* the half of C4 the code keeps: no level-3 row, no curve
C4_MissingLevelRaises == pc = "ranked" => (~Has3 => merged.error = "IndexError")

C4_Witness == pc = "ranked" /\ ~Has3 /\ merged.error = "IndexError"

\* C5: with a level-3 row and a non-zero level-3 mean, the curve has one entry
\* per level present, exactly 1.0 at level 3, and at every level the level's
\* mean expected_points over the level-3 mean.
C5_Normalised ==
    (Returned /\ Has3 /\ MeanAt(R(3)) # R(0)) =>
        /\ Len(merged.xp) = Cardinality({ history_df[i].fixture_difficulty :
                                            i \in 1..Len(history_df) })
        /\ Len(merged.yp) = Len(merged.xp)
        /\ \E i \in 1..Len(merged.xp) : merged.xp[i] = R(3)
        /\ \A i \in 1..Len(merged.xp) :
             /\ merged.yp[i] = Div(MeanAt(merged.xp[i]), MeanAt(R(3)))
             /\ merged.xp[i] = R(3) => merged.yp[i] = R(1)

\* a curve with another level whose factor is neither 1 nor 0
C5_Witness ==
    /\ Returned /\ Has3 /\ MeanAt(R(3)) # R(0)
    /\ \E i \in 1..Len(merged.xp) :
         merged.xp[i] # R(3) /\ merged.yp[i] # R(1) /\ merged.yp[i] # R(0)

\* C6 as stated: scale is horizon_factor / recency_factor, and 1.0 whenever
\* either factor is NaN or zero or the quotient is not finite.
C6_Original ==
    (Returned /\ Adjusted) =>
        \A i \in 1..Len(merged.rows) :
            LET hf == merged.rows[i].horizon_factor
                rf == merged.rows[i].recency_factor
            IN  merged.rows[i].scale =
                  IF IsNaN(hf) \/ IsNaN(rf) \/ hf = R(0) \/ rf = R(0)
                        \/ ~IsFinite(Div(hf, rf))
                  THEN R(1) ELSE Div(hf, rf)

\* C6 amended: scale is horizon_factor / recency_factor, and 1.0 whenever that
\* quotient is NaN or infinite (so whenever recency_factor is NaN or zero, or
\* both factors are infinite); a horizon_factor
\* of 0 over a finite non-zero recency_factor gives scale 0; and the
\* expected_points_per_90 returned is the unscaled rate times that scale.
C6_QuotientOrOne ==
    (Returned /\ Adjusted) =>
        \A i \in 1..Len(merged.rows) :
            LET hf == merged.rows[i].horizon_factor
                rf == merged.rows[i].recency_factor
                e  == merged.rows[i].element
                mins == SumSeq(Column(RowsOf(Selected, e), "minutes"))
                pts  == SumSeq(Column(RowsOf(Selected, e), "expected_points"))
            IN  /\ ~IsNaN(hf)
                /\ merged.rows[i].scale =
                     IF IsFinite(Div(hf, rf)) THEN Div(hf, rf) ELSE R(1)
                /\ (IsNaN(rf) \/ rf = R(0)) => merged.rows[i].scale = R(1)
                /\ (hf = R(0) /\ IsFinite(rf) /\ rf # R(0))
                      => merged.rows[i].scale = R(0)
                /\ merged.rows[i].expected_points_per_90 =
                     IF mins = R(0) THEN R(0)
                     ELSE Mul(Mul(Div(pts, mins), R(90)), merged.rows[i].scale)

\* a player with points whose horizon_factor is 0 and recency_factor is not
C6_Witness ==
    /\ Returned /\ Adjusted
    /\ \E i \in 1..Len(merged.rows) :
         /\ merged.rows[i].horizon_factor = R(0)
         /\ IsFinite(merged.rows[i].recency_factor)
         /\ merged.rows[i].recency_factor # R(0)
         /\ merged.rows[i].scale = R(0)
         /\ SumSeq(Column(RowsOf(Selected, merged.rows[i].element),
                          "expected_points")) # R(0)

\* the same call without fdr_df and without horizon
Unadjusted ==
    expected_points_per_90(history_df, players_df, query.position,
                           query.mins_threshold, query.time_period, NoTable, None)

\* C7: when horizon or fdr_df is omitted the call returns what the call with
\* neither returns, every scale is 1.0, expected_points_per_90 is
\* total_expected_points / total_minutes * 90 and expected_points is that rate
\* times percentage_of_mins_played.
C7_OmittedIsUnadjusted ==
    (pc = "ranked" /\ ~Adjusted) =>
        /\ merged = Unadjusted
        /\ \A i \in 1..Len(merged.rows) :
             LET e    == merged.rows[i].element
                 mins == SumSeq(Column(RowsOf(Selected, e), "minutes"))
                 pts  == SumSeq(Column(RowsOf(Selected, e), "expected_points"))
             IN  /\ merged.rows[i].scale = R(1)
                 /\ merged.rows[i].expected_points_per_90 =
                      IF mins = R(0) THEN R(0) ELSE Mul(Div(pts, mins), R(90))
                 /\ merged.rows[i].expected_points =
                      Mul(merged.rows[i].expected_points_per_90,
                          merged.rows[i].percentage_of_mins_played)

\* fdr_df is passed without a horizon, and passing the horizon too would have
\* changed the table
C7_Witness ==
    /\ Returned /\ query.fdr /\ query.horizon = None
    /\ merged.rows # <<>>
    /\ \E h \in Horizons \ {None} :
         expected_points_per_90(history_df, players_df, query.position,
             query.mins_threshold, query.time_period, <<fdr_df>>, h).rows
           # merged.rows

\* C8: the curve a call uses, whatever its time_period, is the curve the call
\* with time_period = None uses on the same history_df.
C8_CurveIgnoresWindow ==
    pc = "ranked" =>
        /\ <<merged.error, merged.xp, merged.yp>> =
             <<lookup_of(history_df, None).error, lookup_of(history_df, None).xp,
               lookup_of(history_df, None).yp>>
        /\ \A n \in Windows : lookup_of(history_df, n) = lookup_of(history_df, None)

\* a window that drops a row the curve depends on
C8_Witness ==
    /\ Returned /\ query.time_period # None
    /\ build_difficulty_lookup(filter_rows(history_df, NoStr, query.time_period))
         # build_difficulty_lookup(history_df)
    /\ Len(merged.xp) > 1

\* the fdr_df rows of a team in rounds latest + 1 .. latest + horizon
UpcomingOf(team) ==
    { f \in fdr_df :
        /\ f.round \in (latest_round(history_df) + 1)
                         ..(latest_round(history_df) + query.horizon)
        /\ f.team_id = team }

UpcomingMean(team) == MeanSeq(Column(SetToSeq(UpcomingOf(team)), "fixture_difficulty"))

\* C9 as stated: a player whose team has no fixture row in the horizon gets
\* horizon_factor 1.0, and every other player gets the curve value at the mean
\* fixture_difficulty of the team's rows in the horizon.
C9_Original ==
    (Returned /\ Adjusted) =>
        \A i \in 1..Len(merged.rows) :
            LET team == players_df[merged.rows[i].element].team
            IN  merged.rows[i].horizon_factor =
                  IF UpcomingOf(team) = {} THEN R(1)
                  ELSE Interp(UpcomingMean(team), merged.xp, merged.yp)

\* the curve's factors are all finite: its level-3 mean was not zero
FiniteCurve == \A i \in 1..Len(merged.yp) : IsFinite(merged.yp[i])

\* what the code keeps of C9: the statement on every finite curve
C9_OnFiniteCurves == FiniteCurve => C9_Original

\* two ranked team-mates with a fixture in the horizon and a factor other than 1
C9_Witness ==
    /\ Returned /\ Adjusted /\ FiniteCurve
    /\ \E i, j \in 1..Len(merged.rows) :
         /\ i # j
         /\ merged.rows[i].team = merged.rows[j].team
         /\ UpcomingOf(merged.rows[i].team) # {}
         /\ merged.rows[i].horizon_factor # R(1)
         /\ merged.rows[i].horizon_factor = merged.rows[j].horizon_factor

\* the factor of a level of the curve returned, and whether the level is there
Present(level) == \E i \in 1..Len(merged.xp) : merged.xp[i] = level

Factor(level) == merged.yp[CHOOSE i \in 1..Len(merged.xp) : merged.xp[i] = level]

FloorOf(d) == R(d[1] \div d[2])

\* the point at d of the line through (x0, y0) and (x1, y1)
Linear(d, x0, x1, y0, y1) ==
    Add(y0, Mul(Sub(y1, y0), Div(Sub(d, x0), Sub(x1, x0))))

\* C10 as stated, for one average difficulty d mapped to the value v
C10_Consecutive(d, v) ==
    IF Lt(d, R(1)) THEN Present(R(1)) /\ v = Factor(R(1))
    ELSE IF Lt(R(5), d) THEN Present(R(5)) /\ v = Factor(R(5))
    ELSE IF d = FloorOf(d) THEN Present(d) /\ v = Factor(d)
    ELSE /\ Present(FloorOf(d)) /\ Present(Add(FloorOf(d), R(1)))
         /\ v = Linear(d, FloorOf(d), Add(FloorOf(d), R(1)),
                       Factor(FloorOf(d)), Factor(Add(FloorOf(d), R(1))))

\* the levels of the curve next to d: the highest one not above d (or the
\* lowest of all) and the lowest one not below d (or the highest of all)
LevelBelow(d) ==
    IF Lt(d, merged.xp[1]) THEN merged.xp[1]
    ELSE merged.xp[CHOOSE j \in 1..Len(merged.xp) :
            /\ Le(merged.xp[j], d)
            /\ \A k \in 1..Len(merged.xp) : Le(merged.xp[k], d) => k <= j]

LevelAbove(d) ==
    IF Lt(merged.xp[Len(merged.xp)], d) THEN merged.xp[Len(merged.xp)]
    ELSE merged.xp[CHOOSE j \in 1..Len(merged.xp) :
            /\ Le(d, merged.xp[j])
            /\ \A k \in 1..Len(merged.xp) : Le(d, merged.xp[k]) => j <= k]

\* C10 amended, for one d mapped to v: between the two levels of the curve
\* next to d (levels that have rows), the end level's factor outside them;
\* factors that are not finite give their common value, or NaN
C10_Adjacent(d, v) ==
    LET lo == LevelBelow(d)
        hi == LevelAbove(d)
    IN  IF lo = hi THEN v = Factor(lo)
        ELSE IF IsFinite(Factor(lo)) /\ IsFinite(Factor(hi))
             THEN v = Linear(d, lo, hi, Factor(lo), Factor(hi))
        ELSE v = (IF FEq(Factor(lo), Factor(hi)) THEN Factor(lo) ELSE NaN)

\* for the horizon, where a NaN from the curve is then filled with 1.0
C10_AdjacentFilled(d, v) ==
    \E raw \in {v, NaN} : C10_Adjacent(d, raw) /\ v = FillNa(raw, R(1))

\* C10 as stated: every average difficulty the call maps through the curve
\* (recency and horizon) is interpolated between the factors of the levels
\* floor(d) and floor(d) + 1, with the level-1 and level-5 factors outside.
C10_Original ==
    Returned =>
        \A i \in 1..Len(merged.rows) :
            /\ C10_Consecutive(merged.rows[i].avg_fixture_difficulty,
                               merged.rows[i].recency_factor)
            /\ (Adjusted /\ UpcomingOf(merged.rows[i].team) # {}) =>
                  C10_Consecutive(UpcomingMean(merged.rows[i].team),
                                  merged.rows[i].horizon_factor)

\* C10 amended: every average difficulty is interpolated linearly between the
\* factors of the two levels present in the curve that lie next to it, and
\* gets the lowest or highest present level's factor outside their range.
C10_AdjacentLevels ==
    Returned =>
        \A i \in 1..Len(merged.rows) :
            /\ C10_Adjacent(merged.rows[i].avg_fixture_difficulty,
                            merged.rows[i].recency_factor)
            /\ (Adjusted /\ UpcomingOf(merged.rows[i].team) # {}) =>
                  C10_AdjacentFilled(UpcomingMean(merged.rows[i].team),
                                     merged.rows[i].horizon_factor)

\* an average between two levels that are not consecutive, on a finite curve
\* with different factors, and a horizon mean beyond the highest level
C10_Witness ==
    /\ Returned /\ Adjusted /\ FiniteCurve
    /\ \E i \in 1..Len(merged.rows) :
         LET d == merged.rows[i].avg_fixture_difficulty
         IN  /\ LevelBelow(d) # LevelAbove(d)
             /\ Sub(LevelAbove(d), LevelBelow(d)) # R(1)
             /\ Factor(LevelBelow(d)) # Factor(LevelAbove(d))
             /\ UpcomingOf(merged.rows[i].team) # {}
             /\ Lt(merged.xp[Len(merged.xp)], UpcomingMean(merged.rows[i].team))

\* the maximum round over every row of history_df
MaxRoundOf ==
    CHOOSE m \in { history_df[i].round : i \in 1..Len(history_df) } :
        \A i \in 1..Len(history_df) : history_df[i].round <= m

\* the rows of rounds M - N + 1 .. M that have the position asked for
C12_Rows ==
    SelectSeq(history_df, LAMBDA r :
        /\ MaxRoundOf - query.time_period < r.round
        /\ r.round <= MaxRoundOf
        /\ (query.position = NoStr \/ r.pos_abbr = query.position))

\* the fdr_df rows of a team in rounds M + 1 .. M + horizon
C12_Upcoming(team) ==
    { f \in fdr_df :
        /\ MaxRoundOf < f.round /\ f.round <= MaxRoundOf + query.horizon
        /\ f.team_id = team }

\* C12: with time_period = N the call aggregates exactly the rows of rounds
\* M - N < r <= M, M the maximum round of the whole history: the players
\* returned are those with such a row, each player's fixture count, minutes
\* share, actual points and rate come from these rows alone, and the horizon
\* is counted from M.
C12_WindowFromLatestRound ==
    (Returned /\ query.time_period # None) =>
        /\ { merged.rows[i].element : i \in 1..Len(merged.rows) }
              = { C12_Rows[i].element : i \in 1..Len(C12_Rows) }
        /\ \A i \in 1..Len(merged.rows) :
             LET rows == RowsOf(C12_Rows, merged.rows[i].element)
                 mins == SumSeq(Column(rows, "minutes"))
                 pts  == SumSeq(Column(rows, "expected_points"))
                 act  == SumSeq(Column(rows, "total_points"))
                 mean == MeanSeq(Column(SetToSeq(C12_Upcoming(merged.rows[i].team)),
                                        "fixture_difficulty"))
             IN  /\ merged.rows[i].fixture_count = R(Len(rows))
                 /\ merged.rows[i].percentage_of_mins_played
                      = Div(mins, R(90 * Len(rows)))
                 /\ merged.rows[i].actual_points = Div(act, R(Len(rows)))
                 /\ merged.rows[i].expected_points_per_90 =
                      IF mins = R(0) THEN R(0)
                      ELSE Mul(Mul(Div(pts, mins), R(90)), merged.rows[i].scale)
                 /\ Adjusted => merged.rows[i].horizon_factor
                      = FillNa(Interp(mean, merged.xp, merged.yp), R(1))

\* a windowed, adjusted call that leaves out a player's older match
C12_Witness ==
    /\ Returned /\ query.time_period = 1 /\ Adjusted
    /\ \E i \in 1..Len(merged.rows) :
         /\ Len(RowsOf(history_df, merged.rows[i].element)) = 2
         /\ merged.rows[i].fixture_count = R(1)
         /\ C12_Upcoming(merged.rows[i].team) # {}
         /\ merged.rows[i].horizon_factor # R(1)

\* C15 as stated: the rows are in non-increasing order of expected_points, rows
\* with equal expected_points are in ascending order of element id, and the
\* index runs 1..n.
C15_Original ==
    Returned =>
        /\ \A i, j \in 1..Len(merged.rows) : i < j =>
              /\ Ge(merged.rows[i].expected_points, merged.rows[j].expected_points)
              /\ merged.rows[i].expected_points = merged.rows[j].expected_points
                    => merged.rows[i].element < merged.rows[j].element
        /\ \A i \in 1..Len(merged.rows) : merged.rows[i].index = i

\* what the code keeps of C15: non-increasing expected_points, index 1..n, and
\* one row per grouped player
C15_Descending ==
    Returned =>
        /\ \A i, j \in 1..Len(merged.rows) : i < j =>
              /\ Ge(merged.rows[i].expected_points, merged.rows[j].expected_points)
              /\ merged.rows[i].element # merged.rows[j].element
        /\ \A i \in 1..Len(merged.rows) : merged.rows[i].index = i

\* two players with different expected_points, the one with the higher id first
C15_Witness ==
    /\ Returned
    /\ \E i, j \in 1..Len(merged.rows) :
         /\ i < j
         /\ merged.rows[i].element > merged.rows[j].element
         /\ Lt(merged.rows[j].expected_points, merged.rows[i].expected_points)

C18_Position(row) ==
    IF row.element \in DOMAIN players_df THEN players_df[row.element].position
    ELSE NoStr

C19_ValidComponents(row) ==
    SumSeq(<<goal_points(row, row.pos_abbr),
             Mul(row.expected_assists, R(scoring.assists)),
             expected_clean_sheet_points(row, row.pos_abbr),
             conceded_points(row, row.pos_abbr),
             Mul(row.own_goals, R(scoring.own_goals)),
             Mul(row.penalties_saved, R(scoring.penalties_saved)),
             Mul(row.penalties_missed, R(scoring.penalties_missed)),
             Mul(row.yellow_cards, R(scoring.yellow_cards)),
             Mul(row.red_cards, R(scoring.red_cards)),
             Mul(FloorDiv(row.saves, 3), R(scoring.saves)),
             Mul(row.bonus, R(scoring.bonus)),
             defensive_contribution_points(row, row.pos_abbr),
             long_short_points(row)>>)

\* C19 as stated: calculate_expected_points never raises on a missing or text
\* cell, and a row's expected_points is the sum of its valid components.
C19_Original ==
    /\ pc # "failed"
    /\ pc \in {"scored", "ranked"} =>
         \A i \in 1..Len(history_df) :
             history_df[i].expected_points = C19_ValidComponents(history_df[i])

\* what the code keeps of C19: a table whose cells are numbers or missing is
\* scored without an exception
C19_MissingCellsDoNotRaise ==
    (pc = "failed") =>
        \E i \in 1..Len(history_df) :
            \/ history_df[i].minutes = NonNumeric
            \/ history_df[i].expected_assists = NonNumeric

(***************************************************************************)
(* C11  share of minutes over distinct fixtures                            *)
(***************************************************************************)
\* the (round, opponent) keys of element e among the selected rows; a missing
\* name is a key when withMissing, and forms no fixture otherwise
C11_Fixtures(e, withMissing) ==
    { <<Selected[i].round, Selected[i].opponent_team_name>> :
        i \in { k \in 1..Len(Selected) :
                  /\ Selected[k].element = e
                  /\ (withMissing \/ Selected[k].opponent_team_name # NoStr) } }

\* the minutes of element e summed over the rows of those fixtures
C11_Minutes(e, withMissing) ==
    SumSeq(Column(SelectSeq(Selected, LAMBDA r :
                    /\ r.element = e
                    /\ (withMissing \/ r.opponent_team_name # NoStr)), "minutes"))

C11_Share(e, withMissing) ==
    Div(C11_Minutes(e, withMissing),
        R(Cardinality(C11_Fixtures(e, withMissing)) * 90))

\* C11 as stated: every returned player's percentage_of_mins_played is the
\* minutes of the player's distinct fixtures over 90 per distinct fixture,
\* whichever way a row without an opponent name is counted
C11_Original ==
    Returned =>
        \A i \in 1..Len(merged.rows) :
            \/ merged.rows[i].percentage_of_mins_played
                 = C11_Share(merged.rows[i].element, TRUE)
            \/ merged.rows[i].percentage_of_mins_played
                 = C11_Share(merged.rows[i].element, FALSE)

\* the selected rows of element e all name the opponent and no two of them
\* have the same key
C11_OneRowPerFixture(e) ==
    \A i, j \in 1..Len(Selected) :
        (Selected[i].element = e /\ Selected[j].element = e) =>
            /\ Selected[i].opponent_team_name # NoStr
            /\ (i # j => <<Selected[i].round, Selected[i].opponent_team_name>>
                           # <<Selected[j].round, Selected[j].opponent_team_name>>)

\* C11 on tables with one named row per fixture: there the number of rows is
\* the number of fixtures and the stated quotient is what is returned
C11_OnOneRowPerFixture ==
    Returned =>
        \A i \in 1..Len(merged.rows) :
            C11_OneRowPerFixture(merged.rows[i].element) =>
                merged.rows[i].percentage_of_mins_played
                    = C11_Share(merged.rows[i].element, TRUE)

\* a player returned with two rows of different fixtures
C11_Witness ==
    /\ Returned
    /\ \E i \in 1..Len(merged.rows) :
          /\ C11_OneRowPerFixture(merged.rows[i].element)
          /\ Cardinality(C11_Fixtures(merged.rows[i].element, TRUE)) = 2
          /\ merged.rows[i].percentage_of_mins_played = Q(3, 4)

(***************************************************************************)
(* C13  the minutes threshold is inclusive                                 *)
(***************************************************************************)
\* the players the call groups: those with a selected row naming the opponent
C13_Grouped ==
    { Selected[i].element :
        i \in { k \in 1..Len(Selected) : Selected[k].opponent_team_name # NoStr } }

\* percentage_of_mins_played of a grouped player as the call computes it: the
\* minutes of the named rows over 90 per selected row
C13_Share(e) ==
    Div(C11_Minutes(e, FALSE), R(Len(RowsOf(Selected, e)) * 90))

\* C13: with a threshold, a grouped player is returned exactly if the share
\* of minutes is at least the threshold; equality keeps the player
C13_InclusiveThreshold ==
    (Returned /\ query.mins_threshold # NoThreshold) =>
        /\ \A e \in C13_Grouped :
              InOutput(e) <=> ~Lt(C13_Share(e), query.mins_threshold)
        /\ \A i \in 1..Len(merged.rows) :
              /\ merged.rows[i].element \in C13_Grouped
              /\ merged.rows[i].percentage_of_mins_played
                   = C13_Share(merged.rows[i].element)
              /\ ~Lt(merged.rows[i].percentage_of_mins_played, query.mins_threshold)

\* threshold 0.7: a player with one match of 63 minutes is returned with share
\* 0.7 exactly while the other player, below it, is left out
C13_Witness ==
    /\ Returned
    /\ query.mins_threshold = Q(7, 10)
    /\ \E e \in C13_Grouped :
          /\ InOutput(e)
          /\ OutRow(e).percentage_of_mins_played = Q(7, 10)
          /\ Len(RowsOf(Selected, e)) = 1
          /\ RowsOf(Selected, e)[1].minutes = R(63)
    /\ \E e \in C13_Grouped : ~InOutput(e)

(***************************************************************************)
(* C16  players missing from players_df stay in the ranking                *)
(***************************************************************************)
\* C16: the ids returned are the grouped players that pass the threshold,
\* whether players_df holds them or not; a player it lacks is returned with
\* the metrics computed and the metadata columns missing
C16_LeftMergeKeepsRow ==
    Returned =>
        /\ { merged.rows[i].element : i \in 1..Len(merged.rows) }
             = { e \in C13_Grouped :
                   \/ query.mins_threshold = NoThreshold
                   \/ ~Lt(C13_Share(e), query.mins_threshold) }
        /\ \A i \in 1..Len(merged.rows) :
              merged.rows[i].element \notin DOMAIN players_df =>
                  /\ merged.rows[i].team = None
                  /\ merged.rows[i].position = NoStr
                  /\ merged.rows[i].percentage_of_mins_played
                       = C13_Share(merged.rows[i].element)
                  /\ merged.rows[i].fixture_count
                       = R(Len(RowsOf(Selected, merged.rows[i].element)))

\* a player players_df lacks is returned, past the threshold, beside a player
\* it holds
C16_Witness ==
    /\ Returned
    /\ query.mins_threshold = Q(7, 10)
    /\ \E i, j \in 1..Len(merged.rows) :
          /\ merged.rows[i].element \notin DOMAIN players_df
          /\ merged.rows[i].position = NoStr
          /\ merged.rows[j].element \in DOMAIN players_df
          /\ merged.rows[j].position # NoStr

(***************************************************************************)
(* C20  unknown fixture difficulties                                       *)
(***************************************************************************)
\* the selected rows of element e that name the opponent
C20_Rows(e) ==
    SelectSeq(Selected, LAMBDA r : r.element = e /\ r.opponent_team_name # NoStr)

\* C20 as stated, for the players with one row per fixture: the average is
\* the mean over the player's fixtures with each unknown difficulty taken as 3
C20_Original ==
    Returned =>
        \A i \in 1..Len(merged.rows) :
            C11_OneRowPerFixture(merged.rows[i].element) =>
                merged.rows[i].avg_fixture_difficulty
                    = MeanSeq([k \in 1..Len(C20_Rows(merged.rows[i].element)) |->
                                 FillNa(C20_Rows(merged.rows[i].element)[k].fixture_difficulty,
                                        R(3))])

\* the mean of the known difficulties of the rows of one fixture of element e
C20_FixtureMean(e, key) ==
    MeanSeq(Column(SelectSeq(C20_Rows(e), LAMBDA r :
                     <<r.round, r.opponent_team_name>> = key), "fixture_difficulty"))

\* the fixtures of element e with a known difficulty
C20_Known(e) ==
    { key \in C11_Fixtures(e, FALSE) : ~IsNaN(C20_FixtureMean(e, key)) }

\* C20 amended: unknown difficulties are left out of the mean, which is taken
\* over the fixtures with a known difficulty; 3 is the average only of a player
\* with no known difficulty at all
C20_UnknownLeftOut ==
    Returned =>
        \A i \in 1..Len(merged.rows) :
            LET e == merged.rows[i].element
                known == SetToSeq(C20_Known(e))
            IN  merged.rows[i].avg_fixture_difficulty
                  = IF C20_Known(e) = {} THEN R(3)
                    ELSE Div(SumSeq([k \in 1..Len(known) |->
                                       C20_FixtureMean(e, known[k])]),
                             R(Len(known)))

\* a player returned with one fixture of difficulty 5 and one of unknown
\* difficulty, the average being 5
C20_Witness ==
    /\ Returned
    /\ \E i \in 1..Len(merged.rows) :
          /\ C11_OneRowPerFixture(merged.rows[i].element)
          /\ Len(C20_Rows(merged.rows[i].element)) = 2
          /\ \E k \in 1..2 :
                IsNaN(C20_Rows(merged.rows[i].element)[k].fixture_difficulty)
          /\ Cardinality(C20_Known(merged.rows[i].element)) = 1
          /\ merged.rows[i].avg_fixture_difficulty = R(5)

(***************************************************************************)
(* C14  a query that matches nothing                                       *)
(***************************************************************************)
\* the rows of element e that have a position the request asks for
C14_Rows(e) ==
    SelectSeq(history_df, LAMBDA r :
        /\ r.element = e
        /\ IF query.position = "" THEN r.pos_abbr \in {"GKP", "DEF", "MID", "FWD"}
           ELSE r.pos_abbr = query.position)

\* the request asked for a position no row has, or for a share of minutes no
\* player with such rows reaches
C14_MatchesNothing ==
    /\ pc = "responded"
    /\ \A e \in Elements :
          \/ C14_Rows(e) = <<>>
          \/ Lt(Div(SumSeq(Column(C14_Rows(e), "minutes")), R(Len(C14_Rows(e)) * 90)),
                query.mins_threshold)

\* the call returned an empty table and the view shows no player on page 1 of 1
C14_EmptyPage ==
    /\ merged.error = ""
    /\ merged.rows = <<>>
    /\ response.status = 200
    /\ response.players = <<>>
    /\ response.total_players = 0
    /\ response.total_pages = 1
    /\ response.current_page = 1

\* C14 as stated: on every non-empty history a query that matches nothing is
\* answered with the empty page
C14_Original == C14_MatchesNothing => C14_EmptyPage

\* C14 amended: it is answered with the empty page when the history has a row
\* of difficulty 3; without one the difficulty curve cannot be built, the call
\* raises before it filters and the view answers 500
C14_EmptyWhenCurveExists ==
    C14_MatchesNothing =>
        IF Has3 THEN C14_EmptyPage
        ELSE /\ merged.error = "IndexError"
             /\ response = [status |-> 500, error |-> "IndexError"]

\* the goalkeepers were asked for, no row is a goalkeeper's, and the empty
\* page was rendered
C14_Witness ==
    /\ pc = "responded"
    /\ query.position = "GKP"
    /\ Len(history_df) > 0
    /\ Has3
    /\ C14_EmptyPage

\* every position was asked for with a share of minutes no player reaches
C14_WitnessThreshold ==
    /\ pc = "responded"
    /\ query.position = ""
    /\ \E e \in Elements : C14_Rows(e) # <<>>
    /\ C14_MatchesNothing
    /\ Has3
    /\ C14_EmptyPage

(***************************************************************************)
(* C27  what the horizon adjustment changes                                *)
(***************************************************************************)
\* the row of element e in the table of the same call without the adjustment
C27_Plain(e) ==
    Unadjusted.rows[CHOOSE i \in 1..Len(Unadjusted.rows) :
                      Unadjusted.rows[i].element = e]

\* C27: for one position asked for, the call with and the call without
\* (fdr_df, horizon) return the same players, and each player's actual_points,
\* actual_points_per_90, percentage_of_mins_played, fixture_count,
\* avg_fixture_difficulty, recency_factor and metadata are the same in both
C27_AdjustmentFrame ==
    (pc = "responded" /\ merged.error = "" /\ query.position # "") =>
        /\ Unadjusted.error = ""
        /\ { merged.rows[i].element : i \in 1..Len(merged.rows) }
             = { Unadjusted.rows[i].element : i \in 1..Len(Unadjusted.rows) }
        /\ \A i \in 1..Len(merged.rows) :
              \A c \in {"actual_points", "actual_points_per_90",
                        "percentage_of_mins_played", "fixture_count",
                        "avg_fixture_difficulty", "recency_factor",
                        "team", "position", "now_cost"} :
                  merged.rows[i][c] = C27_Plain(merged.rows[i].element)[c]

\* the adjustment was on, a player was returned past the threshold with a
\* scale other than 1 and with points scored, and the rate differs from the
\* unadjusted one
C27_Witness ==
    /\ pc = "responded" /\ merged.error = "" /\ query.position # ""
    /\ Adjusted
    /\ \E i \in 1..Len(merged.rows) :
          /\ merged.rows[i].scale # R(1)
          /\ merged.rows[i].actual_points_per_90 # R(0)
          /\ merged.rows[i].expected_points_per_90
               # C27_Plain(merged.rows[i].element).expected_points_per_90

(***************************************************************************)
(* C21  fetch_all_histories collects every fetch or raises                 *)
(***************************************************************************)
\* the fetch of player p fails
C21_Fails(p) == api[p].kind = "error" \/ (api[p].kind = "history" /\ api[p].history = <<>>)

\* the rows of the table that come from player p
C21_RowsOf(p) == SelectSeq(fetch.table, LAMBDA r : r.element = p)

\* C21: fetch_all_histories returns only when every submitted fetch has
\* finished and none has failed, with as many rows of each player as the API
\* answered; when a fetch fails it raises, after every fetch has finished, and
\* returns no table
C21_AllCollectedOrRaised ==
    /\ fetch.pc = "returned" =>
          /\ \A p \in FetchIds : futures[p] = "finished" /\ ~C21_Fails(p)
          /\ \A p \in FetchIds : Len(C21_RowsOf(p)) = Len(api[p].history)
          /\ \A p \in FetchIds : \A i \in 1..Len(api[p].history) :
                \E k \in 1..Len(fetch.table) :
                    /\ fetch.table[k].element = p
                    /\ fetch.table[k].round = api[p].history[i].round
                    /\ fetch.table[k].opponent_team_name
                         = team_map[api[p].history[i].opponent_team]
    /\ fetch.pc = "raised" =>
          /\ \A p \in FetchIds : futures[p] = "finished"
          /\ \E p \in FetchIds : C21_Fails(p)
          /\ fetch.table = <<>>
    /\ (\E p \in FetchIds : C21_Fails(p)) => fetch.pc # "returned"

\* a fetch failed after another player's table had been collected, other
\* fetches were still to be looked at, and fetch_all_histories raised
C21_Witness ==
    /\ fetch.pc = "raised"
    /\ all_histories # <<>>
    /\ fetch.consumed + 1 < NumFetched

(***************************************************************************)
(* C28  the table does not depend on the completion order                  *)
(***************************************************************************)
\* the rows of player p as the API answered them, a round after the other
RECURSIVE C28_ByRound(_, _)
C28_ByRound(p, r) ==
    IF r = 0 THEN <<>>
    ELSE C28_ByRound(p, r - 1)
           \o SelectSeq(fetch_player_history(api[p]).rows, LAMBDA row : row.round = r)

\* the players' rows one player after the other
RECURSIVE C28_UpTo(_)
C28_UpTo(p) == IF p = 0 THEN <<>> ELSE C28_UpTo(p - 1) \o C28_ByRound(p, MaxRound)

\* C28: whatever order the fetches finished in, the table returned holds the
\* players in ascending order, each player's rows by round, and the rows of
\* one round in the order of the API's answer
C28_OrderIndependent ==
    fetch.pc = "returned" => fetch.table = C28_UpTo(NumFetched)

\* the second player's fetch finished before the first player's and the last
\* player's before both were collected, the first player's double gameweek
\* among the rows
C28_Witness ==
    /\ fetch.pc = "returned"
    /\ finished_order[1] = 2
    /\ finished_order[NumFetched] = 1
    /\ Len(api[1].history) = 2 /\ api[1].history[1].round = api[1].history[2].round
    /\ Len(fetch.table) > 3

(***************************************************************************)
(* C22: the difficulty merged onto a history row                           *)
(***************************************************************************)
\* the ratings of the fixtures of a row: the player's team against the row's
\* opponent in the row's round, from the team's side
C22_OwnRatings(row) ==
    { x.fixture_difficulty : x \in
        { y \in { fdr_df[i] : i \in DOMAIN fdr_df } :
            /\ y.round = row.round
            /\ y.team_id = team_id_of(row.element, players_df)
            /\ opponent_name(y.opponent_id) = row.opponent_team_name } }

\* C22 (first half): after _merge_fixture_difficulty the table has exactly
\* one row per distinct (element, round, opponent_team_name) of the input
C22_OneRowPerKey ==
    pc = "retrieved" =>
        /\ { fixture_key(history_df[i]) : i \in DOMAIN history_df }
              = { fixture_key(fetch.table[i]) : i \in DOMAIN fetch.table }
        /\ \A i, j \in DOMAIN history_df :
              fixture_key(history_df[i]) = fixture_key(history_df[j]) => i = j

\* C22: after _merge_fixture_difficulty the table has one row per distinct
\* (element, round, opponent_team_name) of the input, and each row's
\* fixture_difficulty is the rating of the row's own fixture, in a double
\* gameweek too
C22_Original ==
    pc = "retrieved" =>
        /\ C22_OneRowPerKey
        /\ \A i \in DOMAIN history_df :
              history_df[i].fixture_difficulty \in C22_OwnRatings(history_df[i])

\* a double gameweek: two rows of one player in one round
C22_DoubleGameweek(rows) ==
    \E i, j \in DOMAIN rows :
        /\ i # j
        /\ rows[i].element = rows[j].element
        /\ rows[i].round = rows[j].round

\* C22 (outside double gameweeks): where no player has two rows in one round,
\* each row gets the rating of its own fixture
C22_SingleGameweeks ==
    (pc = "retrieved" /\ ~C22_DoubleGameweek(fetch.table)) =>
        \A i \in DOMAIN history_df :
            history_df[i].fixture_difficulty \in C22_OwnRatings(history_df[i])

\* C22 (what a double gameweek gets): both rows of the player carry the
\* rating of the team's first fixture of the round in the fixture list
C22_FirstFixtureOfRound ==
    pc = "retrieved" =>
        \A i \in DOMAIN history_df :
            \E k \in DOMAIN fdr_df :
                /\ fdr_df[k].round = history_df[i].round
                /\ fdr_df[k].team_id = team_id_of(history_df[i].element, players_df)
                /\ \A m \in 1..(k - 1) :
                      ~(/\ fdr_df[m].round = fdr_df[k].round
                        /\ fdr_df[m].team_id = fdr_df[k].team_id)
                /\ history_df[i].fixture_difficulty = fdr_df[k].fixture_difficulty

\* a double gameweek with two ratings has been merged
C22_Witness ==
    /\ pc = "retrieved"
    /\ C22_DoubleGameweek(fetch.table)
    /\ \E i, j \in DOMAIN fdr_df :
          /\ fdr_df[i].round = fdr_df[j].round
          /\ fdr_df[i].team_id = fdr_df[j].team_id
          /\ fdr_df[i].fixture_difficulty # fdr_df[j].fixture_difficulty

(***************************************************************************)
(* C23: what should_update answers                                         *)
(***************************************************************************)
\* the stamp holds the date of day d: the date and nothing but white space
C23_HoldsDate(s, d) ==
    /\ s.state = "text"
    /\ \E i \in DOMAIN s.text :
          /\ s.text[i] = str_date(d)
          /\ \A j \in DOMAIN s.text \ {i} : s.text[j] \in Whitespace

\* the requests that have asked should_update
C23_Asked == { p \in DOMAIN procs : procs[p].pc # "idle" }

C23_WitnessUnreadable ==
    \E p \in C23_Asked : procs[p].saw.state = "unreadable" /\ procs[p].answer.value

(***************************************************************************)
(* C24: the stamp is written after the refresh has succeeded               *)
(***************************************************************************)
\* the request's call of initialise_data has saved every file
C24_AllSaved(p) ==
    \A k \in DOMAIN FileNames :
        files[k] = [day |-> procs[p].data, by |-> procs[p].call]

\* the request's refresh failed in fetching, building or saving
C24_Failed(p) == procs[p].pc \in {"raised_retrieve", "raised_save"}

\* C24: the stamp is written only after the data has been fetched and all
\* four files saved; where fetching, building or saving fails, the stamp
\* keeps the value the call found and the next load_data call refreshes
\* again instead of reading the local files
C24_MarkAfterSave ==
    [][ /\ stamp' # stamp =>
              \E p \in DOMAIN procs :
                  /\ procs[p].pc = "mark"
                  /\ procs[p].data # 0
                  /\ C24_AllSaved(p)
        /\ \A p \in DOMAIN procs :
              /\ C24_Failed(p)' => stamp' = procs'[p].saw
              /\ (C24_Failed(p) /\ procs'[p] # procs[p]) =>
                    /\ procs'[p].pc = "retrieve"
                    /\ procs'[p].answer.value ]_vars

\* a save failed after the first files were written, and the next call
\* refreshes again
C24_Witness ==
    \E p \in DOMAIN procs :
        /\ procs[p].pc = "retrieve"
        /\ procs[p].prev = "raised_save"
        /\ \E k \in DOMAIN FileNames : files[k].by # 0
        /\ \E k \in DOMAIN FileNames : files[k].by # files[1].by
        /\ stamp.state = "text"

\* a refresh has saved its files and marked the stamp
C24_WitnessMarked ==
    \E p \in DOMAIN procs :
        /\ procs[p].pc = "returned"
        /\ procs[p].call # 0
        /\ C24_AllSaved(p)
        /\ stamp = StampOf(mark_text(today))

(***************************************************************************)
(* C26: overlapping requests within one day                                *)
(***************************************************************************)
\* the calls of initialise_data made on day d
C26_CallsOn(d) == { i \in DOMAIN refreshed.calls : refreshed.calls[i].day = d }

\* the files a request has read come from one completed save
C26_ReadWhole(p) ==
    \A i, j \in DOMAIN procs[p].seen : procs[p].seen[i] = procs[p].seen[j]

\* C26: within one UTC day, under every interleaving of overlapping load_data
\* calls without failures, initialise_data is invoked by at most one of them
\* and every other call reads the local files completely written
C26_Original ==
    /\ Cardinality(C26_CallsOn(today)) <= 1
    /\ \A p \in DOMAIN procs : C26_ReadWhole(p)

\* C26 (what the guard does give): a request that asks should_update after a
\* refresh of the day has marked the stamp does not refresh
C26_NoRefreshAfterMark ==
    [][ \A p \in DOMAIN procs :
          (refreshed.marked = today /\ procs'[p] # procs[p] /\ procs[p].pc \in Ended)
              => procs'[p].pc = "read" ]_vars

\* two requests are refreshing at once
C26_Witness ==
    /\ procs[1].pc = "save"
    /\ procs[2].pc = "save"
    /\ procs[1].call # procs[2].call

\* a request has read files of two different saves
C26_WitnessTorn ==
    \E p \in DOMAIN procs : procs[p].pc = "returned" /\ ~C26_ReadWhole(p)

(***************************************************************************)
(* C25: the price the view shows                                           *)
(***************************************************************************)
\* a page with players has been rendered
C25_Shown == pc = "responded" /\ response.status = 200 /\ Len(response.players) > 0

\* C25: the price shown by the view is the raw API now_cost divided by 10
\* exactly once, the cost in millions
C25_Original ==
    C25_Shown =>
        \A i \in DOMAIN response.players :
            response.players[i].now_cost
                = Q(raw_now_cost(response.players[i].element), 10)

\* C25 (what is shown): the raw now_cost divided by 10 twice, by
\* preprocess_players_df and again by format_player_data
C25_DividedTwice ==
    C25_Shown =>
        \A i \in DOMAIN response.players :
            /\ players_df[response.players[i].element].now_cost
                  = Q(raw_now_cost(response.players[i].element), 10)
            /\ response.players[i].now_cost
                  = Q(raw_now_cost(response.players[i].element), 100)

====
